---------------------------- MODULE Spec2Model ----------------------------
(***************************************************************************)
(* Model of the pomoshnik backend: the AI proxy handler (src/api/ai.ts),   *)
(* the sliding-window limiter (src/lib/ratelimit.ts), the plan catalog     *)
(* (src/lib/config.ts), the license store (src/lib/db.ts) and the Stripe   *)
(* webhook (src/api/webhook.ts).                                           *)
(*                                                                         *)
(* Every await on a Redis command is one action: the command's effect on   *)
(* the store followed by the JavaScript that runs until the next command   *)
(* is sent.  Strings the code inspects (model names) are sequences of      *)
(* characters.  Time is Date.now() in milliseconds on one global clock;    *)
(* calendar months are periods of MonthLen milliseconds (a real month does *)
(* not fit TLC's 32-bit integers).                                         *)
(***************************************************************************)
EXTENDS Integers, Sequences, FiniteSets, Bags, TLC

VARIABLES
    now,        \* the clock: Date.now(), new Date()
    env,        \* process.env: [kv, stripe, whSecret : BOOLEAN, apiKeys : SUBSET Providers]
    license,    \* Redis  license:{key}  ->  LicenseRecord or NoRec
    emailIdx,   \* Redis  email:{email}  ->  license key or NoKey
    zset,       \* Redis  ratelimit:{key} -> bag of scores (members are unique)
    ttl,        \* Redis  expiry time of ratelimit:{key}, 0 when it has none
    req,        \* the proxy requests in flight, one per unit of execution
    wh,         \* the webhook and admin deliveries in flight
    admitted,   \* history: per key, the bag of timestamps of the allowed limiter calls
    nreq        \* number of requests and deliveries started so far

vars == <<now, env, license, emailIdx, zset, ttl, req, wh, admitted, nreq>>

-----------------------------------------------------------------------------
(* Bounds of the model *)

\* requests and webhook deliveries started in one behaviour
MaxReq == 2
\* the clock stops at MaxNow
MaxNow == 120000
\* length of a calendar month on the model's clock
MonthLen == 120000
\* the clock stops at LimiterHorizon when the limiter is called on its own
LimiterHorizon == 120000
\* the clock stops at RaceHorizon when limiter calls race, a millisecond a step
RaceHorizon == 60002
\* the calls made beyond the plan's limit while the store is out
MaxOutageCalls == 2
\* the most bytes in one chunk of a streamed upstream body
MaxChunkLen == 2
\* the clock stops at WindowHorizon when a full window runs out
WindowHorizon == 120001

-----------------------------------------------------------------------------
(* Program constants *)

WINDOW_MS == 60000
TTL_BUFFER_S == 10
RATE_FREE == 5
RATE_STARTER == 15
RATE_PRO == 30
RATE_BUSINESS == 60
TASKS_FREE == 10
TASKS_STARTER == 100
TASKS_PRO == 500
UNLIMITED == -1
ANTHROPIC_DEFAULT_MAX_TOKENS == 4096

NoKey == "NoKey"
None == "None"

-----------------------------------------------------------------------------
(* Strings *)

StartsWith(s, p) == Len(p) <= Len(s) /\ SubSeq(s, 1, Len(p)) = p

s_gpt == <<"g","p","t","-">>
s_o3 == <<"o","3","-">>
s_o1 == <<"o","1","-">>
s_claude == <<"c","l","a","u","d","e","-">>
s_gemini == <<"g","e","m","i","n","i","-">>
s_deepseek == <<"d","e","e","p","s","e","e","k","-">>

m_gpt4omini == s_gpt \o <<"4","o","-","m","i","n","i">>
m_gpt4o == s_gpt \o <<"4","o">>
m_o3mini == s_o3 \o <<"m","i","n","i">>
m_gemini20flash == s_gemini \o <<"2",".","0","-","f","l","a","s","h">>
m_gemini25flash == s_gemini \o <<"2",".","5","-","f","l","a","s","h">>
m_gemini25pro == s_gemini \o <<"2",".","5","-","p","r","o">>
m_claudesonnet == s_claude \o <<"s","o","n","n","e","t","-","4","-","2","0","2","5","0","5","1","4">>
m_claudeopus == s_claude \o <<"o","p","u","s","-","4","-","2","0","2","5","0","5","1","4">>
m_deepseekchat == s_deepseek \o <<"c","h","a","t">>
m_deepseekreasoner == s_deepseek \o <<"r","e","a","s","o","n","e","r">>
m_unknown == <<"u","n","k","n","o","w","n","-","l","l","m">>
m_gpt4omini2024 == m_gpt4omini \o <<"-","2","0","2","4">>

-----------------------------------------------------------------------------
(* Plan catalog and provider router: src/lib/config.ts *)

Providers == {"openai", "anthropic", "gemini", "deepseek"}

PLANS ==
    [free |-> [name |-> "Free", taskLimit |-> TASKS_FREE,
               models |-> <<m_gpt4omini, m_gemini20flash>>],
     starter |-> [name |-> "Starter", taskLimit |-> TASKS_STARTER,
               models |-> <<m_gpt4omini, m_gpt4o, m_gemini20flash, m_gemini25flash,
                            m_claudesonnet, m_deepseekchat>>],
     pro |-> [name |-> "Pro", taskLimit |-> TASKS_PRO,
               models |-> <<m_gpt4omini, m_gpt4o, m_o3mini, m_gemini20flash,
                            m_gemini25flash, m_gemini25pro, m_claudesonnet,
                            m_claudeopus, m_deepseekchat, m_deepseekreasoner>>],
     business |-> [name |-> "Business", taskLimit |-> UNLIMITED,
               models |-> <<m_gpt4omini, m_gpt4o, m_o3mini, m_gemini20flash,
                            m_gemini25flash, m_gemini25pro, m_claudesonnet,
                            m_claudeopus, m_deepseekchat, m_deepseekreasoner>>]]

\* PLANS[plan] || PLANS.free
PlanConfig(plan) == IF plan \in DOMAIN PLANS THEN PLANS[plan] ELSE PLANS["free"]

\* a variant that sends a model without a known prefix to openai
getProviderFromModelDefault(model) ==
    IF StartsWith(model, s_claude) THEN "anthropic"
    ELSE IF StartsWith(model, s_gemini) THEN "gemini"
    ELSE IF StartsWith(model, s_deepseek) THEN "deepseek"
    ELSE "openai"

getProviderFromModel(model) ==
    IF StartsWith(model, s_gpt) \/ StartsWith(model, s_o3) \/ StartsWith(model, s_o1)
    THEN "openai"
    ELSE IF StartsWith(model, s_claude) THEN "anthropic"
    ELSE IF StartsWith(model, s_gemini) THEN "gemini"
    ELSE IF StartsWith(model, s_deepseek) THEN "deepseek"
    ELSE None

\* a variant that lets every plan use every model
isModelAllowedAny(plan, model) == TRUE

isModelAllowed(plan, model) ==
    LET ms == PlanConfig(plan).models
    IN \E i \in 1..Len(ms) : StartsWith(model, ms[i]) \/ model = ms[i]

RATE_LIMITS ==
    [free |-> RATE_FREE, starter |-> RATE_STARTER, pro |-> RATE_PRO,
     business |-> RATE_BUSINESS]

\* RATE_LIMITS[plan] ?? RATE_LIMITS.free
RateLimitOf(plan) ==
    IF plan \in DOMAIN RATE_LIMITS THEN RATE_LIMITS[plan] ELSE RATE_LIMITS["free"]


-----------------------------------------------------------------------------
(* The stores: src/lib/db.ts, and the sorted-set commands of ratelimit.ts *)

Keys == {"K1", "K2"}
Emails == {"E1", "E2"}

NoRec ==
    [key |-> NoKey, email |-> None, plan |-> None, status |-> "absent",
     tasksUsedThisMonth |-> 0, monthResetDate |-> 0]

\* getNextMonthReset: the first instant of the month after the current one
getNextMonthReset(t) == ((t \div MonthLen) + 1) * MonthLen

\* ZREMRANGEBYSCORE key lo hi
ZRemRangeByScore(b, lo, hi) ==
    [t \in {x \in DOMAIN b : ~(lo <= x /\ x <= hi)} |-> b[t]]

\* a variant that counts the distinct scores
ZCardScores(b) == Cardinality(DOMAIN b)

\* ZCARD key
ZCard(b) == BagCardinality(b)

\* ZRANGE key 0 0 WITHSCORES: <<member, score>> of the lowest score, or <<>>
ZRangeFirst(b) ==
    IF DOMAIN b = {} THEN <<>>
    ELSE LET lo == CHOOSE x \in DOMAIN b : \A y \in DOMAIN b : x <= y
         IN <<lo, lo>>

\* a variant whose member is the score alone: a second add at the same
\* instant replaces the first
ZAddByScore(b, score) == IF score \in DOMAIN b THEN b ELSE b (+) SetToBag({score})

\* ZADD key score member, the member being new
ZAdd(b, score) == b (+) SetToBag({score})

\* Math.ceil(a / b) for b > 0
Ceil(a, b) == -((-a) \div b)

Max(a, b) == IF a >= b THEN a ELSE b

\* Redis drops a key at its expiry time
Expired(k, t) == ttl[k] # 0 /\ ttl[k] <= t

-----------------------------------------------------------------------------
(* The AI proxy: src/api/ai.ts *)

Procs == {"p1", "p2"}

\* a key that was never issued
AllKeys == Keys \cup {"KX"}

NoHeaders == [h \in {} |-> 0]

NoResp == [status |-> 0, type |-> None, code |-> None, message |-> <<>>,
           headers |-> NoHeaders]

NoRate == [allowed |-> FALSE, remaining |-> 0, limit |-> 0, resetInSeconds |-> 0]

NoBody == [kind |-> "none", modelKind |-> "absent", model |-> <<>>,
           msgsKind |-> "absent", messages |-> <<>>, stream |-> FALSE]

\* no upstream reply yet
NoReply ==
    [kind |-> "none", status |-> 0,
     body |-> [shape |-> "text",
               error |-> [message |-> "", type |-> "", code |-> "", status |-> ""],
               type |-> "", message |-> ""],
     chunks |-> <<>>]

\* a license store that holds no record
NoStore == [k \in AllKeys |-> NoRec]

IdleReq ==
    [pc |-> "idle", key |-> NoKey, body |-> NoBody, lic |-> NoRec, plan |-> None,
     limit |-> 0, rlNow |-> 0, count |-> 0, rate |-> NoRate, rec |-> NoRec,
     provider |-> None, hdrs |-> NoHeaders, resp |-> NoResp, gates |-> <<>>,
     calls |-> 0, direct |-> FALSE, before |-> NoStore, at |-> 0,
     up |-> NoReply, src |-> <<>>, got |-> <<>>, written |-> <<>>, pend |-> FALSE,
     reads |-> 0, ended |-> 0, closed |-> FALSE,
     path |-> None, method |-> None, active |-> FALSE, licStatus |-> None,
     allowed |-> None, ret |-> 0,
     norm |-> [message |-> <<>>, type |-> None, code |-> None, provider |-> None,
               statusCode |-> 0],
     canon |-> [messages |-> <<>>, hasMaxTokens |-> FALSE, max_tokens |-> 0,
                stream |-> "undefined"],
     payload |-> [url |-> None, messages |-> <<>>, hasSystem |-> FALSE, system |-> "",
                  hasMaxTokens |-> FALSE, max_tokens |-> 0, stream |-> "undefined"]]

Response(status, type, code, message, hdrs) ==
    [status |-> status, type |-> type, code |-> code, message |-> message,
     headers |-> hdrs]

\* extractLicenseKey: X-License-Key first, then Authorization: Bearer <key>
extractLicenseKey(h) ==
    IF h.xkey # NoKey THEN h.xkey
    ELSE IF h.bearer # NoKey THEN h.bearer
    ELSE NoKey

MissingKeyResponse(hdrs) ==
    Response(401, "authentication_error", "missing_license_key",
             <<"Missing license key. Please enter your license key in extension settings.">>,
             hdrs)

InvalidKeyResponse(hdrs) ==
    Response(401, "authentication_error", "invalid_license_key",
             <<"Invalid or expired license key. Please check your key or renew your subscription.">>,
             hdrs)

RateLimitedResponse(rate, plan, hdrs) ==
    Response(429, "rate_limit_error", "rate_limit_exceeded",
             <<"Rate limit exceeded. Maximum ", rate.limit,
               " requests per minute on your ", plan, " plan. Retry after ",
               rate.resetInSeconds, " seconds.">>,
             hdrs)

\* a variant whose message carries the text of the exception
InternalErrorResponseLeaky(hdrs) ==
    Response(500, "server_error", "internal_error", <<"error.message">>, hdrs)

InternalErrorResponse(hdrs) ==
    Response(500, "server_error", "internal_error",
             <<"AI proxy internal error. Please try again.">>, hdrs)

\* a variant that answers an inactive license differently from a missing one
LicenseGateResponseSplit(data, hdrs) ==
    IF data = NoRec THEN InvalidKeyResponse(hdrs)
    ELSE Response(403, "permission_error", "license_inactive",
                  <<"License is ", data.status>>, hdrs)

\* the response to a key whose license is missing or not active
LicenseGateResponse(data, hdrs) == InvalidKeyResponse(hdrs)

\* license.plan || 'free'
PlanOf(lic) == IF lic.plan = "" THEN "free" ELSE lic.plan

\* a variant that rejects a missing license only
LicenseRejectedMissingOnly(lic) == lic = NoRec

\* !license || license.status !== 'active'
LicenseRejected(lic) == lic = NoRec \/ lic.status # "active"

\* a variant that lets a license reach one task more than its limit
QuotaReachedStrict(plan, used) ==
    PlanConfig(plan).taskLimit # UNLIMITED /\ used > PlanConfig(plan).taskLimit

\* planConfig.taskLimit !== -1 && license.tasksUsedThisMonth >= planConfig.taskLimit
QuotaReached(plan, used) ==
    PlanConfig(plan).taskLimit # UNLIMITED /\ used >= PlanConfig(plan).taskLimit

\* getApiKey: the provider's key in process.env, or null
getApiKey(provider, e) == provider \in e.apiKeys

\* a variant of gates 4 to 8 that checks the quota before the model
BodyGatesQuotaFirst(body, plan, lic, e, hdrs) ==
    IF body.kind = "none"
    THEN [resp |-> InternalErrorResponse(hdrs), gates |-> <<4>>, provider |-> None]
    ELSE IF body.modelKind = "absent" \/ (body.modelKind = "string" /\ body.model = <<>>)
    THEN [resp |-> Response(400, "invalid_request_error", None, <<"Missing model">>, hdrs),
          gates |-> <<4>>, provider |-> None]
    ELSE IF body.msgsKind # "array" \/ Len(body.messages) = 0
    THEN [resp |-> Response(400, "invalid_request_error", None,
                            <<"Missing or invalid messages">>, hdrs),
          gates |-> <<4>>, provider |-> None]
    ELSE IF body.modelKind # "string"
    THEN [resp |-> InternalErrorResponse(hdrs), gates |-> <<4, 5>>, provider |-> None]
    ELSE IF QuotaReached(plan, lic.tasksUsedThisMonth)
    THEN [resp |-> Response(429, "rate_limit_error", "task_limit_reached",
                            <<"Monthly task limit reached (", PlanConfig(plan).taskLimit,
                              "). Please upgrade your plan.">>, hdrs),
          gates |-> <<4, 6>>, provider |-> None]
    ELSE IF ~isModelAllowed(plan, body.model)
    THEN [resp |-> Response(403, "permission_error", "model_not_allowed",
                            <<"Model ", body.model, " is not available on your ",
                              IF plan \in DOMAIN PLANS THEN PLANS[plan].name ELSE plan,
                              " plan. Please upgrade.">>, hdrs),
          gates |-> <<4, 6, 5>>, provider |-> None]
    ELSE IF getProviderFromModel(body.model) = None
    THEN [resp |-> Response(400, "invalid_request_error", "unknown_model",
                            <<"Unknown model: ", body.model,
                              ". Cannot determine provider.">>, hdrs),
          gates |-> <<4, 5, 6, 7>>, provider |-> None]
    ELSE IF ~getApiKey(getProviderFromModel(body.model), e)
    THEN [resp |-> Response(503, "server_error", "provider_not_configured",
                            <<"Provider ", getProviderFromModel(body.model),
                              " is temporarily unavailable. Contact support.">>, hdrs),
          gates |-> <<4, 5, 6, 7, 8>>,
          provider |-> getProviderFromModel(body.model)]
    ELSE [resp |-> NoResp, gates |-> <<4, 5, 6, 7, 8>>,
          provider |-> getProviderFromModel(body.model)]

\* the handler from "Parse body" to "Get API key" (gates 4 to 8), given the
\* headers set so far: the response of the first gate that rejects, or NoResp.
\* gates lists the gates evaluated.
BodyGates(body, plan, lic, e, hdrs) ==
    IF body.kind = "none"
    THEN [resp |-> InternalErrorResponse(hdrs), gates |-> <<4>>, provider |-> None]
    ELSE IF body.modelKind = "absent" \/ (body.modelKind = "string" /\ body.model = <<>>)
    THEN [resp |-> Response(400, "invalid_request_error", None, <<"Missing model">>, hdrs),
          gates |-> <<4>>, provider |-> None]
    ELSE IF body.msgsKind # "array" \/ Len(body.messages) = 0
    THEN [resp |-> Response(400, "invalid_request_error", None,
                            <<"Missing or invalid messages">>, hdrs),
          gates |-> <<4>>, provider |-> None]
    ELSE IF body.modelKind # "string"
    THEN [resp |-> InternalErrorResponse(hdrs), gates |-> <<4, 5>>, provider |-> None]
    ELSE IF ~isModelAllowed(plan, body.model)
    THEN [resp |-> Response(403, "permission_error", "model_not_allowed",
                            <<"Model ", body.model, " is not available on your ",
                              IF plan \in DOMAIN PLANS THEN PLANS[plan].name ELSE plan,
                              " plan. Please upgrade.">>, hdrs),
          gates |-> <<4, 5>>, provider |-> None]
    ELSE IF QuotaReached(plan, lic.tasksUsedThisMonth)
    THEN [resp |-> Response(429, "rate_limit_error", "task_limit_reached",
                            <<"Monthly task limit reached (", PlanConfig(plan).taskLimit,
                              "). Please upgrade your plan.">>, hdrs),
          gates |-> <<4, 5, 6>>, provider |-> None]
    ELSE IF getProviderFromModel(body.model) = None
    THEN [resp |-> Response(400, "invalid_request_error", "unknown_model",
                            <<"Unknown model: ", body.model,
                              ". Cannot determine provider.">>, hdrs),
          gates |-> <<4, 5, 6, 7>>, provider |-> None]
    ELSE IF ~getApiKey(getProviderFromModel(body.model), e)
    THEN [resp |-> Response(503, "server_error", "provider_not_configured",
                            <<"Provider ", getProviderFromModel(body.model),
                              " is temporarily unavailable. Contact support.">>, hdrs),
          gates |-> <<4, 5, 6, 7, 8>>,
          provider |-> getProviderFromModel(body.model)]
    ELSE [resp |-> NoResp, gates |-> <<4, 5, 6, 7, 8>>,
          provider |-> getProviderFromModel(body.model)]

-----------------------------------------------------------------------------
(* checkRateLimit: src/lib/ratelimit.ts *)

\* the denial, from the reply to ZRANGE key 0 0 WITHSCORES (<<>>: no entry or null)
RateDenied(limit, oldest, t) ==
    LET oldestScore == IF Len(oldest) >= 2
                       THEN (IF oldest[2] = 0 THEN t ELSE oldest[2])
                       ELSE 0
        resetIn == IF Len(oldest) >= 2
                   THEN Max(1, Ceil(oldestScore + WINDOW_MS - t, 1000))
                   ELSE WINDOW_MS \div 1000
    IN [allowed |-> FALSE, remaining |-> 0, limit |-> limit,
        resetInSeconds |-> resetIn]

\* a variant that does not count the call being admitted
RateAllowedUncounted(limit, currentCount) ==
    [allowed |-> TRUE, remaining |-> Max(0, limit - currentCount),
     limit |-> limit, resetInSeconds |-> Ceil(WINDOW_MS, 1000)]

RateAllowed(limit, currentCount) ==
    [allowed |-> TRUE, remaining |-> Max(0, limit - currentCount - 1),
     limit |-> limit, resetInSeconds |-> Ceil(WINDOW_MS, 1000)]

\* the catch branch: the store is not configured and redisCommand throws
RateFailOpen(limit) ==
    [allowed |-> TRUE, remaining |-> limit, limit |-> limit,
     resetInSeconds |-> Ceil(WINDOW_MS, 1000)]

\* a variant that denies one call later
OverLimitStrict(currentCount, limit) == currentCount > limit

\* currentCount >= limit
OverLimit(currentCount, limit) == currentCount >= limit

\* a variant that keeps the entry that is exactly one window old
PrunedStrict(b, t) == ZRemRangeByScore(b, 0, t - WINDOW_MS - 1)

\* the entries ZREMRANGEBYSCORE key 0 windowStart leaves
Pruned(b, t) == ZRemRangeByScore(b, 0, t - WINDOW_MS)

\* the handler after checkRateLimit returned a denial
AfterDenied(r, rate) ==
    LET hdrs == ("Retry-After" :> rate.resetInSeconds)
                @@ ("X-RateLimit-Limit" :> rate.limit)
                @@ ("X-RateLimit-Remaining" :> 0) @@ r.hdrs
    IN [r EXCEPT !.pc = "done", !.rate = rate, !.hdrs = hdrs,
                 !.gates = Append(r.gates, 3),
                 !.resp = RateLimitedResponse(rate, r.plan, hdrs)]

\* a variant that goes on to incrementTaskCount whatever gates 4 to 8 answered
AfterAllowedAlways(r, rate, e) ==
    LET hdrs == ("X-RateLimit-Limit" :> rate.limit)
                @@ ("X-RateLimit-Remaining" :> rate.remaining) @@ r.hdrs
        g == BodyGates(r.body, r.plan, r.lic, e, hdrs)
    IN [r EXCEPT !.pc = "incGet",
                 !.rate = rate, !.hdrs = hdrs,
                 !.gates = r.gates \o <<3>> \o g.gates,
                 !.provider = g.provider,
                 !.resp = g.resp]

\* the handler after checkRateLimit allowed the call: the headers, then gates 4 to 8;
\* a request that passes them calls incrementTaskCount, whose first command is a GET
AfterAllowed(r, rate, e) ==
    LET hdrs == ("X-RateLimit-Limit" :> rate.limit)
                @@ ("X-RateLimit-Remaining" :> rate.remaining) @@ r.hdrs
        g == BodyGates(r.body, r.plan, r.lic, e, hdrs)
    IN [r EXCEPT !.pc = IF g.resp = NoResp THEN "incGet" ELSE "done",
                 !.rate = rate, !.hdrs = hdrs,
                 !.gates = r.gates \o <<3>> \o g.gates,
                 !.provider = g.provider,
                 !.resp = g.resp]

\* a variant that validates the payload of a denied call before rejecting it
ReturnedShapeFirst(r, rate, e) ==
    IF r.direct THEN [r EXCEPT !.pc = "done", !.rate = rate]
    ELSE IF rate.allowed \/ r.body.modelKind = "absent" THEN AfterAllowed(r, rate, e)
    ELSE AfterDenied(r, rate)

\* what follows checkRateLimit's return: the handler, or the direct caller
Returned(r, rate, e) ==
    IF r.direct THEN [r EXCEPT !.pc = "done", !.rate = rate]
    ELSE IF rate.allowed THEN AfterAllowed(r, rate, e)
    ELSE AfterDenied(r, rate)

\* checkRateLimit(licenseKey, plan) up to its first command
EnterLimiter(r, plan, t, e) ==
    LET r1 == [r EXCEPT !.plan = plan, !.limit = RateLimitOf(plan), !.rlNow = t]
    IN IF e.kv THEN [r1 EXCEPT !.pc = "zrem"]
       ELSE Returned(r1, RateFailOpen(RateLimitOf(plan)), e)

\* 1. ZREMRANGEBYSCORE; an emptied key is deleted, and its expiry with it
ZRem(p, ok) ==
    /\ req[p].pc = "zrem"
    /\ LET k == req[p].key
           b == IF ok THEN Pruned(zset[k], req[p].rlNow) ELSE zset[k]
       IN /\ zset' = [zset EXCEPT ![k] = b]
          /\ ttl' = [ttl EXCEPT ![k] = IF b = EmptyBag THEN 0 ELSE @]
    /\ req' = [req EXCEPT ![p].pc = "zcard"]
    /\ UNCHANGED <<now, env, license, emailIdx, wh, admitted, nreq>>

\* a variant that counts and adds in one command
ZCardStepAdds(p, ok) ==
    /\ req[p].pc = "zcard"
    /\ LET c == IF ok THEN ZCard(zset[req[p].key]) ELSE 0
       IN /\ req' = [req EXCEPT ![p].count = c,
                                ![p].pc = IF OverLimit(c, req[p].limit)
                                          THEN "zrange" ELSE "expire"]
          /\ zset' = [zset EXCEPT ![req[p].key] =
                         IF ok /\ ~OverLimit(c, req[p].limit)
                         THEN ZAdd(@, req[p].rlNow) ELSE @]
    /\ UNCHANGED <<now, env, license, emailIdx, ttl, wh, admitted, nreq>>

\* 2. ZCARD; a null reply counts as 0
ZCardStep(p, ok) ==
    /\ req[p].pc = "zcard"
    /\ LET c == IF ok THEN ZCard(zset[req[p].key]) ELSE 0
       IN req' = [req EXCEPT ![p].count = c,
                             ![p].pc = IF OverLimit(c, req[p].limit)
                                       THEN "zrange" ELSE "zadd"]
    /\ UNCHANGED <<now, env, license, emailIdx, zset, ttl, wh, admitted, nreq>>

\* a variant whose denial refreshes the key's expiry
ZRangeStepRefreshes(p, ok) ==
    /\ req[p].pc = "zrange"
    /\ LET oldest == IF ok THEN ZRangeFirst(zset[req[p].key]) ELSE <<>>
           rate == RateDenied(req[p].limit, oldest, req[p].rlNow)
       IN req' = [req EXCEPT ![p] = Returned(req[p], rate, env)]
    /\ ttl' = [ttl EXCEPT ![req[p].key] =
                  now + (Ceil(WINDOW_MS, 1000) + TTL_BUFFER_S) * 1000]
    /\ UNCHANGED <<now, env, license, emailIdx, zset, wh, admitted, nreq>>

\* ZRANGE of the oldest entry, and the denial
ZRangeStep(p, ok) ==
    /\ req[p].pc = "zrange"
    /\ LET oldest == IF ok THEN ZRangeFirst(zset[req[p].key]) ELSE <<>>
           rate == RateDenied(req[p].limit, oldest, req[p].rlNow)
       IN req' = [req EXCEPT ![p] = Returned(req[p], rate, env)]
    /\ UNCHANGED <<now, env, license, emailIdx, zset, ttl, wh, admitted, nreq>>

\* 3. ZADD key now member
ZAddStep(p, ok) ==
    /\ req[p].pc = "zadd"
    /\ zset' = [zset EXCEPT ![req[p].key] = IF ok THEN ZAdd(@, req[p].rlNow) ELSE @]
    /\ req' = [req EXCEPT ![p].pc = "expire"]
    /\ UNCHANGED <<now, env, license, emailIdx, ttl, wh, admitted, nreq>>

\* 4. EXPIRE key 70, and the allowed result
ExpireStep(p, ok) ==
    /\ req[p].pc = "expire"
    /\ LET k == req[p].key
       IN /\ ttl' = [ttl EXCEPT ![k] =
                        IF ok /\ zset[k] # EmptyBag
                        THEN now + (Ceil(WINDOW_MS, 1000) + TTL_BUFFER_S) * 1000
                        ELSE @]
          /\ admitted' = [admitted EXCEPT ![k] = @ (+) SetToBag({req[p].rlNow})]
    /\ req' = [req EXCEPT ![p] =
                  Returned(req[p], RateAllowed(req[p].limit, req[p].count), env)]
    /\ UNCHANGED <<now, env, license, emailIdx, zset, wh, nreq>>

-----------------------------------------------------------------------------
(* incrementTaskCount: src/lib/db.ts *)

\* the record incrementTaskCount writes back, from the record it read
\* a variant that counts on without looking at the reset date
IncrementedNoReset(record, t) ==
    [record EXCEPT !.tasksUsedThisMonth = @ + 1]

Incremented(record, t) ==
    LET r1 == IF t >= record.monthResetDate
              THEN [record EXCEPT !.tasksUsedThisMonth = 0,
                                  !.monthResetDate = getNextMonthReset(t)]
              ELSE record
    IN [r1 EXCEPT !.tasksUsedThisMonth = @ + 1]

-----------------------------------------------------------------------------
(* The handler of POST /api/ai: src/api/ai.ts *)

\* the upstream call is issued: fetch(providerRequest.url, ...)
Dispatch(r) == [r EXCEPT !.pc = "fetch", !.calls = @ + 1]

\* gate 1, and the GET of getLicense is sent
Start(p, h, body) ==
    /\ req[p].pc = "idle"
    /\ nreq < MaxReq
    /\ nreq' = nreq + 1
    /\ LET k == extractLicenseKey(h)
           r == [IdleReq EXCEPT !.key = k, !.body = body, !.before = license, !.at = now,
                              !.path = "/api/ai", !.method = "POST"]
       IN req' = [req EXCEPT ![p] =
                    IF k = NoKey
                    THEN [r EXCEPT !.pc = "done", !.gates = <<1>>,
                                   !.resp = MissingKeyResponse(NoHeaders)]
                    ELSE IF ~env.kv
                    THEN [r EXCEPT !.pc = "done", !.gates = <<1, 2>>,
                                   !.resp = InternalErrorResponse(NoHeaders)]
                    ELSE [r EXCEPT !.pc = "getLicense", !.gates = <<1>>]]
    /\ UNCHANGED <<now, env, license, emailIdx, zset, ttl, wh, admitted>>

\* gate 2: the reply to GET license:{key}; then checkRateLimit starts
GetLicense(p, ok) ==
    /\ req[p].pc = "getLicense"
    /\ LET r == req[p]
           data == IF ok THEN license[r.key] ELSE NoRec
       IN req' = [req EXCEPT ![p] =
                    IF LicenseRejected(data)
                    THEN [r EXCEPT !.pc = "done", !.lic = data,
                                   !.gates = Append(r.gates, 2),
                                   !.resp = LicenseGateResponse(data, r.hdrs)]
                    ELSE EnterLimiter([r EXCEPT !.lic = data,
                                                !.gates = Append(r.gates, 2)],
                                      PlanOf(data), now, env)]
    /\ UNCHANGED <<now, env, license, emailIdx, zset, ttl, wh, admitted, nreq>>

\* incrementTaskCount: the reply to its GET; no record: it returns -1 and the
\* handler goes on to the upstream call
IncGet(p, ok) ==
    /\ req[p].pc = "incGet"
    /\ LET r == req[p]
           record == IF ok THEN license[r.key] ELSE NoRec
       IN req' = [req EXCEPT ![p] =
                    IF record = NoRec THEN [Dispatch(r) EXCEPT !.ret = -1]
                    ELSE [r EXCEPT !.pc = "incSet", !.rec = Incremented(record, now)]]
    /\ UNCHANGED <<now, env, license, emailIdx, zset, ttl, wh, admitted, nreq>>

\* setLicense: SET license:{licenseKey}
IncSet(p, ok) ==
    /\ req[p].pc = "incSet"
    /\ license' = [license EXCEPT ![req[p].key] = IF ok THEN req[p].rec ELSE @]
    /\ req' = [req EXCEPT ![p].pc = "incSetEmail"]
    /\ UNCHANGED <<now, env, emailIdx, zset, ttl, wh, admitted, nreq>>

\* setLicense: SET email:{record.email}; then the request is built and sent
IncSetEmail(p, ok) ==
    /\ req[p].pc = "incSetEmail"
    /\ emailIdx' = [emailIdx EXCEPT ![req[p].rec.email] = IF ok THEN req[p].key ELSE @]
    /\ req' = [req EXCEPT ![p] = [Dispatch(req[p]) EXCEPT
                                     !.ret = req[p].rec.tasksUsedThisMonth]]
    /\ UNCHANGED <<now, env, license, zset, ttl, wh, admitted, nreq>>

-----------------------------------------------------------------------------
(* normalizeProviderError and the relay: src/api/ai.ts *)

\* a || b on strings, "" being the absent or empty value
Or(a, b) == IF a = "" THEN b ELSE a

NoErr == [message |-> "", type |-> "", code |-> "", status |-> ""]

\* an upstream body: shape "object", "array" (its first element is the object)
\* or "text" (not JSON); error is the object's error member, NoErr when it has none
RawBody(shape, error, type, message) ==
    [shape |-> shape, error |-> error, type |-> type, message |-> message]

\* a variant without the status-code override: the body's message wins
normalizeProviderErrorBodyWins(provider, statusCode, rawBody) ==
    [message |-> IF rawBody.error.message = "" THEN <<"AI provider returned an error">>
                 ELSE <<rawBody.error.message>>,
     type |-> "api_error", code |-> Or(rawBody.error.code, "provider_error"),
     provider |-> provider, statusCode |-> statusCode]

normalizeProviderError(provider, statusCode, rawBody) ==
    LET base == [message |-> <<"AI provider returned an error">>, type |-> "api_error",
                 code |-> "provider_error", provider |-> provider,
                 statusCode |-> statusCode]
        err == IF rawBody.shape = "object" THEN rawBody.error ELSE NoErr
        gerr == IF rawBody.shape \in {"object", "array"} THEN rawBody.error ELSE NoErr
        extracted ==
            IF provider \in {"openai", "deepseek"}
            THEN IF err # NoErr
                 THEN [base EXCEPT !.message = IF err.message = "" THEN @ ELSE <<err.message>>,
                                   !.type = Or(err.type, @),
                                   !.code = Or(err.code, @)]
                 ELSE base
            ELSE IF provider = "anthropic"
            THEN IF err # NoErr
                 THEN [base EXCEPT !.message = IF err.message = "" THEN @ ELSE <<err.message>>,
                                   !.type = Or(err.type, @),
                                   !.code = Or(err.type, @)]
                 ELSE IF rawBody.shape = "object" /\ rawBody.type = "error"
                 THEN [base EXCEPT !.message = IF rawBody.message = "" THEN @
                                               ELSE <<rawBody.message>>]
                 ELSE base
            ELSE IF provider = "gemini"
            THEN IF gerr # NoErr
                 THEN [base EXCEPT !.message = IF gerr.message = "" THEN @ ELSE <<gerr.message>>,
                                   !.code = Or(gerr.status, Or(gerr.code, "undefined")),
                                   !.type = "gemini_error"]
                 ELSE base
            ELSE base
    IN IF statusCode \in {401, 403}
       THEN [extracted EXCEPT
                !.message = <<"Authentication error with ", provider,
                              ". Please contact support.">>,
                !.code = "provider_auth_error"]
       ELSE IF statusCode = 429
       THEN [extracted EXCEPT
                !.message = <<provider, " rate limit exceeded. Please try again in a moment.">>,
                !.code = "provider_rate_limit"]
       ELSE IF statusCode \in {500, 502, 503}
       THEN [extracted EXCEPT
                !.message = <<provider, " is temporarily unavailable. Please try again later.">>,
                !.code = "provider_unavailable"]
       ELSE extracted

\* res.status(providerRes.status).json({error: {message, type, code}})
ProviderErrorResponse(n, hdrs) ==
    Response(n.statusCode, n.type, n.code, n.message, hdrs)

\* The bytes of an upstream body, by their role in UTF-8: "a" is a one-byte
\* character, "L" the lead byte of a two-byte character, "C" a continuation
\* byte; "R" stands for the three bytes of U+FFFD.

\* decoder.decode(value, {stream: true}) followed by res.write's encoding of the
\* string: the bytes written for chunk from byte i on, and whether a lead byte
\* is held back for the next call
RECURSIVE DecodeFrom(_, _, _, _)
DecodeFrom(pend, chunk, i, out) ==
    IF i > Len(chunk) THEN [out |-> out, pend |-> pend]
    ELSE IF pend
    THEN IF chunk[i] = "C" THEN DecodeFrom(FALSE, chunk, i + 1, out \o <<"L", "C">>)
         ELSE DecodeFrom(FALSE, chunk, i, Append(out, "R"))
    ELSE IF chunk[i] = "a" THEN DecodeFrom(FALSE, chunk, i + 1, Append(out, "a"))
    ELSE IF chunk[i] = "L" THEN DecodeFrom(TRUE, chunk, i + 1, out)
    ELSE DecodeFrom(FALSE, chunk, i + 1, Append(out, "R"))

Decode(pend, chunk) == DecodeFrom(pend, chunk, 1, <<>>)

UpstreamReply(kind, status, body, chunks) ==
    [kind |-> kind, status |-> status, body |-> body, chunks |-> chunks]

\* what the single upstream call can come back with; chunks are the pieces in
\* which a 2xx body arrives
UpstreamReplies ==
    {UpstreamReply("ok", 200, RawBody("object", NoErr, "", ""),
                   <<<<"a", "L">>, <<"C">>>>),
     UpstreamReply("error", 429,
                   RawBody("array", [message |-> "quota", type |-> "", code |-> "429",
                                     status |-> ""], "", ""), <<>>),
     UpstreamReply("error", 502, RawBody("text", NoErr, "", ""), <<>>),
     UpstreamReply("throw", 0, RawBody("text", NoErr, "", ""), <<>>)}

\* the reply of the upstream call, buffered mode: providerRes.json() throws on a
\* body that is not JSON
BufferedRelay(r, u) ==
    IF u.kind = "throw" \/ u.body.shape = "text"
    THEN InternalErrorResponse(r.hdrs)
    ELSE IF u.kind = "error"
    THEN ProviderErrorResponse(normalizeProviderError(r.provider, u.status, u.body), r.hdrs)
    ELSE Response(200, None, None, <<"upstream body">>,
                  ("Access-Control-Allow-Origin" :> "*") @@ ("X-Request-Id" :> "rid")
                  @@ r.hdrs)

\* streaming mode; textThrows: providerRes.text() after a failed providerRes.json()
\* finds the body already read
StreamRelay(r, u, textThrows) ==
    IF u.kind = "throw" THEN InternalErrorResponse(r.hdrs)
    ELSE IF u.kind = "error"
    THEN IF u.body.shape = "text" /\ textThrows THEN InternalErrorResponse(r.hdrs)
         ELSE ProviderErrorResponse(normalizeProviderError(r.provider, u.status, u.body),
                                    r.hdrs)
    ELSE Response(200, None, None, <<"upstream stream">>,
                  ("Content-Type" :> "text/event-stream") @@ ("Cache-Control" :> "no-cache")
                  @@ ("Connection" :> "keep-alive")
                  @@ ("Access-Control-Allow-Origin" :> "*") @@ ("X-Request-Id" :> "rid")
                  @@ r.hdrs)

\* the upstream call returns; the response is relayed, or, in streaming mode
\* with a 2xx status, the headers are set and the first reader.read() is issued
Fetch(p, u, textThrows) ==
    /\ req[p].pc = "fetch"
    /\ req' = [req EXCEPT ![p] =
                  IF req[p].body.stream /\ u.kind = "ok"
                  THEN [req[p] EXCEPT !.pc = "stream", !.up = u, !.src = u.chunks,
                                      !.reads = 1,
                                      !.resp = StreamRelay(req[p], u, textThrows)]
                  ELSE [req[p] EXCEPT !.pc = "done", !.up = u,
                                      !.resp = IF req[p].body.stream
                                               THEN StreamRelay(req[p], u, textThrows)
                                               ELSE BufferedRelay(req[p], u)]]
    /\ UNCHANGED <<now, env, license, emailIdx, zset, ttl, wh, admitted, nreq>>

\* the relay loop, from the reply of reader.read() to the next reader.read():
\* the read rejects (readFails), reports done (no chunk left) or yields a chunk,
\* which is decoded and written; res.write on a connection the caller has
\* closed may throw (writeThrows); catch and finally end the response
StreamStep(p, readFails, writeThrows) ==
    /\ req[p].pc = "stream"
    /\ LET r == req[p]
           d == Decode(r.pend, Head(r.src))
       IN req' = [req EXCEPT ![p] =
                    IF readFails \/ r.src = <<>>
                    THEN [r EXCEPT !.pc = "done", !.ended = @ + 1]
                    ELSE IF r.closed /\ writeThrows
                    THEN [r EXCEPT !.pc = "done", !.ended = @ + 1,
                                   !.got = Append(@, Head(r.src)), !.src = Tail(@)]
                    ELSE [r EXCEPT !.got = Append(@, Head(r.src)), !.src = Tail(@),
                                   !.written = Append(@, d.out), !.pend = d.pend,
                                   !.reads = @ + 1]]
    /\ UNCHANGED <<now, env, license, emailIdx, zset, ttl, wh, admitted, nreq>>

\* the caller closes its connection while the response is streamed; the handler
\* registers no listener for it
ClientClose(p) ==
    /\ req[p].pc = "stream"
    /\ ~req[p].closed
    /\ req' = [req EXCEPT ![p].closed = TRUE]
    /\ UNCHANGED <<now, env, license, emailIdx, zset, ttl, wh, admitted, nreq>>

\* the response is sent; the unit of execution is free for another request
Finish(p) ==
    /\ req[p].pc = "done"
    /\ req' = [req EXCEPT ![p] = IdleReq]
    /\ UNCHANGED <<now, env, license, emailIdx, zset, ttl, wh, admitted, nreq>>

\* checkRateLimit(licenseKey, plan) called on its own; without a configured
\* store the call is allowed at once, by the catch branch
CallLimiter(p, k, plan) ==
    /\ req[p].pc = "idle"
    /\ req' = [req EXCEPT ![p] =
                  EnterLimiter([IdleReq EXCEPT !.key = k, !.direct = TRUE], plan, now, env)]
    /\ admitted' = IF env.kv THEN admitted
                   ELSE [admitted EXCEPT ![k] = @ (+) SetToBag({now})]
    /\ UNCHANGED <<now, env, license, emailIdx, zset, ttl, wh, nreq>>

\* time passes; Redis drops the keys whose expiry time is reached
Tick(d, horizon) ==
    /\ now + d <= horizon
    /\ now' = now + d
    /\ zset' = [k \in DOMAIN zset |-> IF Expired(k, now + d) THEN EmptyBag ELSE zset[k]]
    /\ ttl' = [k \in DOMAIN ttl |-> IF Expired(k, now + d) THEN 0 ELSE ttl[k]]
    /\ UNCHANGED <<env, license, emailIdx, req, wh, admitted, nreq>>

-----------------------------------------------------------------------------
(* The requests that are not a POST to /api/ai (src/api/ai.ts), and the    *)
(* handler of GET /api/verify (src/api/verify.ts)                          *)

\* a variant whose preflight answer carries no header
MethodResponseBare(method) ==
    IF method = "OPTIONS" THEN Response(200, None, None, <<>>, NoHeaders)
    ELSE Response(405, "invalid_request_error", None, <<"Method not allowed">>, NoHeaders)

\* the answer of /api/ai to a method other than POST: res.status(200).end()
\* with the CORS headers for OPTIONS, 405 with an error body for the rest
MethodResponse(method) ==
    IF method = "OPTIONS"
    THEN Response(200, None, None, <<>>,
                  ("Access-Control-Allow-Origin" :> "*")
                  @@ ("Access-Control-Allow-Methods" :> "GET, POST, OPTIONS")
                  @@ ("Access-Control-Allow-Headers" :>
                          "Content-Type, Authorization, X-License-Key, X-Feature"))
    ELSE Response(405, "invalid_request_error", None, <<"Method not allowed">>, NoHeaders)

\* /api/ai receives a request whose method is not POST; it returns before
\* any header of the request is read
Preflight(p, method) ==
    /\ req[p].pc = "idle"
    /\ nreq < MaxReq
    /\ nreq' = nreq + 1
    /\ req' = [req EXCEPT ![p] =
                  [IdleReq EXCEPT !.pc = "done", !.path = "/api/ai", !.method = method,
                                  !.at = now,
                                  !.before = license, !.resp = MethodResponse(method)]]
    /\ UNCHANGED <<now, env, license, emailIdx, zset, ttl, wh, admitted>>

\* a variant that answers an inactive license as it answers a missing one
VerifyResponseMerged(r, data) ==
    IF data.status # "active"
    THEN [r EXCEPT !.pc = "done", !.lic = data,
                   !.resp = Response(404, None, None, <<"License key not found">>,
                                     "Access-Control-Allow-Origin" :> "*")]
    ELSE [r EXCEPT !.pc = "done", !.lic = data, !.active = TRUE, !.plan = data.plan,
                   !.resp = Response(200, None, None, <<>>,
                                     "Access-Control-Allow-Origin" :> "*")]

\* the answer of /api/verify to the record getLicense returned
VerifyResponse(r, data) ==
    IF data = NoRec
    THEN [r EXCEPT !.pc = "done", !.lic = data,
                   !.resp = Response(404, None, None, <<"License key not found">>,
                                     "Access-Control-Allow-Origin" :> "*")]
    ELSE IF data.status # "active"
    THEN [r EXCEPT !.pc = "done", !.lic = data, !.plan = data.plan,
                   !.licStatus = data.status,
                   !.resp = Response(403, None, None, <<"License is ", data.status>>,
                                     "Access-Control-Allow-Origin" :> "*")]
    ELSE [r EXCEPT !.pc = "done", !.lic = data, !.active = TRUE, !.plan = data.plan,
                   !.resp = Response(200, None, None, <<>>,
                                     "Access-Control-Allow-Origin" :> "*")]

\* GET /api/verify: the key is taken from the headers and GET license:{key}
\* is sent; without a configured store redisCommand throws into the catch
VerifyStart(p, h) ==
    /\ req[p].pc = "idle"
    /\ nreq < MaxReq
    /\ nreq' = nreq + 1
    /\ LET k == extractLicenseKey(h)
           r == [IdleReq EXCEPT !.key = k, !.path = "/api/verify", !.method = "GET",
                                !.before = license,
                                !.at = now]
       IN req' = [req EXCEPT ![p] =
                    IF k = NoKey
                    THEN [r EXCEPT !.pc = "done",
                                   !.resp = Response(401, None, None,
                                                     <<"Missing license key">>, NoHeaders)]
                    ELSE IF ~env.kv
                    THEN [r EXCEPT !.pc = "done",
                                   !.resp = Response(500, None, None,
                                                     <<"Internal server error">>, NoHeaders)]
                    ELSE [r EXCEPT !.pc = "v_get"]]
    /\ UNCHANGED <<now, env, license, emailIdx, zset, ttl, wh, admitted>>

\* the reply to GET license:{key}
VerifyGet(p, ok) ==
    /\ req[p].pc = "v_get"
    /\ req' = [req EXCEPT ![p] =
                  VerifyResponse(req[p], IF ok THEN license[req[p].key] ELSE NoRec)]
    /\ UNCHANGED <<now, env, license, emailIdx, zset, ttl, wh, admitted, nreq>>

-----------------------------------------------------------------------------
(* The webhook's checkout.session.completed: src/api/webhook.ts, with           *)
(* getLicenseByEmail, saveSubscription, createLicense and setLicense of db.ts   *)

IdleWh ==
    [pc |-> "idle", kind |-> None, email |-> None, plan |-> None, key |-> NoKey,
     rec |-> NoRec, sig |-> None, verified |-> FALSE, status |-> 0, before |-> NoStore,
     beforeKey |-> NoKey]

\* createLicense up to its first command: the key is generateLicenseKey()'s draw
NewLicense(w, key, t) ==
    [w EXCEPT !.pc = "c_set", !.key = key,
              !.rec = [key |-> key, email |-> w.email, plan |-> w.plan,
                       status |-> "active", tasksUsedThisMonth |-> 0,
                       monthResetDate |-> getNextMonthReset(t)]]

\* the record saveSubscription writes back, from the record it read
Updated(record, plan, status) == [record EXCEPT !.plan = plan, !.status = status]

\* a delivery that is answered before any event is read: getStripe() throws
\* without STRIPE_SECRET_KEY, outside the handler's try block, and the host
\* answers 500; 500 without STRIPE_WEBHOOK_SECRET; 400 without a
\* stripe-signature header ("none") or when constructEvent throws ("bad")
WhReject(d, sig) ==
    /\ wh[d].pc = "idle"
    /\ nreq < MaxReq
    /\ ~env.stripe \/ ~env.whSecret \/ sig # "good"
    /\ nreq' = nreq + 1
    /\ wh' = [wh EXCEPT ![d] =
                [IdleWh EXCEPT !.pc = "done", !.kind = "checkout", !.sig = sig,
                               !.before = license,
                               !.status = IF ~env.stripe \/ ~env.whSecret THEN 500
                                          ELSE 400]]
    /\ UNCHANGED <<now, env, license, emailIdx, zset, ttl, req, admitted>>

\* a verified checkout.session.completed arrives; with an email,
\* getLicenseByEmail sends GET email:{email}
WhStart(d, email, plan) ==
    /\ wh[d].pc = "idle"
    /\ nreq < MaxReq
    /\ env.stripe /\ env.whSecret
    /\ nreq' = nreq + 1
    /\ wh' = [wh EXCEPT ![d] =
                [IdleWh EXCEPT !.kind = "checkout", !.email = email, !.plan = plan,
                               !.sig = "good", !.verified = TRUE, !.before = license,
                               !.beforeKey = IF email = None THEN NoKey
                                             ELSE emailIdx[email],
                               !.pc = IF email # None /\ env.kv THEN "w_email"
                                      ELSE "done",
                               !.status = IF email = None THEN 200
                                          ELSE IF env.kv THEN 0 ELSE 500]]
    /\ UNCHANGED <<now, env, license, emailIdx, zset, ttl, req, admitted>>

\* getLicenseByEmail: the reply to GET email:{email}
WhEmail(d, ok, newKey) ==
    /\ wh[d].pc = "w_email"
    /\ LET k == IF ok THEN emailIdx[wh[d].email] ELSE NoKey
       IN wh' = [wh EXCEPT ![d] = IF k = NoKey THEN NewLicense(wh[d], newKey, now)
                                  ELSE [wh[d] EXCEPT !.pc = "w_lic", !.key = k]]
    /\ UNCHANGED <<now, env, license, emailIdx, zset, ttl, req, admitted, nreq>>

\* a variant that creates a license also when the email has one
WhLicAlwaysNew(d, ok, newKey) ==
    /\ wh[d].pc = "w_lic"
    /\ wh' = [wh EXCEPT ![d] = NewLicense(wh[d], newKey, now)]
    /\ UNCHANGED <<now, env, license, emailIdx, zset, ttl, req, admitted, nreq>>

\* getLicenseByEmail: the reply to GET license:{key}; the webhook updates an
\* existing license by saveSubscription, which looks the email up again; the
\* admin endpoint answers 200 "License already exists for this email"
WhLic(d, ok, newKey) ==
    /\ wh[d].pc = "w_lic"
    /\ LET existing == IF ok THEN license[wh[d].key] ELSE NoRec
       IN wh' = [wh EXCEPT ![d] =
                   IF existing = NoRec THEN NewLicense(wh[d], newKey, now)
                   ELSE IF wh[d].kind = "admin"
                   THEN [wh[d] EXCEPT !.pc = "done", !.status = 200]
                   ELSE [wh[d] EXCEPT !.pc = "s_email", !.key = NoKey]]
    /\ UNCHANGED <<now, env, license, emailIdx, zset, ttl, req, admitted, nreq>>

\* saveSubscription: the reply to GET email:{email}
SvEmail(d, ok) ==
    /\ wh[d].pc = "s_email"
    /\ LET k == IF ok THEN emailIdx[wh[d].email] ELSE NoKey
       IN wh' = [wh EXCEPT ![d] =
                   IF k = NoKey THEN [wh[d] EXCEPT !.pc = "done", !.status = 200]
                   ELSE [wh[d] EXCEPT !.pc = "s_lic", !.key = k]]
    /\ UNCHANGED <<now, env, license, emailIdx, zset, ttl, req, admitted, nreq>>

\* saveSubscription: the reply to GET license:{key}
SvLic(d, ok) ==
    /\ wh[d].pc = "s_lic"
    /\ LET record == IF ok THEN license[wh[d].key] ELSE NoRec
       IN wh' = [wh EXCEPT ![d] =
                   IF record = NoRec THEN [wh[d] EXCEPT !.pc = "done", !.status = 200]
                   ELSE [wh[d] EXCEPT !.pc = "s_set",
                                      !.rec = Updated(record, wh[d].plan, "active")]]
    /\ UNCHANGED <<now, env, license, emailIdx, zset, ttl, req, admitted, nreq>>

\* setLicense(record.key, record): SET license:{record.key}
SvSet(d, ok) ==
    /\ wh[d].pc = "s_set"
    /\ license' = [license EXCEPT ![wh[d].rec.key] = IF ok THEN wh[d].rec ELSE @]
    /\ wh' = [wh EXCEPT ![d].pc = "s_setEmail"]
    /\ UNCHANGED <<now, env, emailIdx, zset, ttl, req, admitted, nreq>>

\* setLicense: SET email:{record.email}
SvSetEmail(d, ok) ==
    /\ wh[d].pc = "s_setEmail"
    /\ emailIdx' = [emailIdx EXCEPT ![wh[d].rec.email] = IF ok THEN wh[d].rec.key ELSE @]
    /\ wh' = [wh EXCEPT ![d].pc = "done", ![d].status = 200]
    /\ UNCHANGED <<now, env, license, zset, ttl, req, admitted, nreq>>

\* createLicense: setLicense(key, record): SET license:{key}
CrSet(d, ok) ==
    /\ wh[d].pc = "c_set"
    /\ license' = [license EXCEPT ![wh[d].key] = IF ok THEN wh[d].rec ELSE @]
    /\ wh' = [wh EXCEPT ![d].pc = "c_setEmail"]
    /\ UNCHANGED <<now, env, emailIdx, zset, ttl, req, admitted, nreq>>

\* createLicense: SET email:{record.email}
CrSetEmail(d, ok) ==
    /\ wh[d].pc = "c_setEmail"
    /\ emailIdx' = [emailIdx EXCEPT ![wh[d].rec.email] = IF ok THEN wh[d].key ELSE @]
    /\ wh' = [wh EXCEPT ![d].pc = "done",
                        ![d].status = IF wh[d].kind = "admin" THEN 201 ELSE 200]
    /\ UNCHANGED <<now, env, license, zset, ttl, req, admitted, nreq>>

\* a variant that carries out the cancellation: customer.subscription.deleted
\* sets the stored licenses to cancelled
WhOtherCancels(d, type) ==
    /\ wh[d].pc = "idle"
    /\ nreq < MaxReq
    /\ env.stripe /\ env.whSecret
    /\ nreq' = nreq + 1
    /\ wh' = [wh EXCEPT ![d] =
                [IdleWh EXCEPT !.kind = type, !.sig = "good", !.verified = TRUE,
                               !.before = license, !.pc = "done", !.status = 200]]
    /\ license' = [k \in DOMAIN license |->
                      IF license[k] # NoRec /\ type = "customer.subscription.deleted"
                      THEN [license[k] EXCEPT !.status = "cancelled"] ELSE license[k]]
    /\ UNCHANGED <<now, env, emailIdx, zset, ttl, req, admitted>>

\* a verified customer.subscription.updated or customer.subscription.deleted:
\* the event is logged and answered 200, no store command is sent
WhOther(d, type) ==
    /\ wh[d].pc = "idle"
    /\ nreq < MaxReq
    /\ env.stripe /\ env.whSecret
    /\ nreq' = nreq + 1
    /\ wh' = [wh EXCEPT ![d] =
                [IdleWh EXCEPT !.kind = type, !.sig = "good", !.verified = TRUE,
                               !.before = license, !.pc = "done", !.status = 200]]
    /\ UNCHANGED <<now, env, license, emailIdx, zset, ttl, req, admitted>>

\* POST /api/admin with action create-license (src/api/debug.ts): 401 without
\* the admin secret, 400 without an email; a plan outside the catalog becomes
\* starter; then getLicenseByEmail sends GET email:{email}
AdminStart(d, auth, email, plan) ==
    /\ wh[d].pc = "idle"
    /\ nreq < MaxReq
    /\ nreq' = nreq + 1
    /\ wh' = [wh EXCEPT ![d] =
                IF ~auth THEN [IdleWh EXCEPT !.kind = "admin", !.before = license,
                                             !.pc = "done", !.status = 401]
                ELSE IF email = None
                THEN [IdleWh EXCEPT !.kind = "admin", !.verified = TRUE,
                                    !.before = license, !.pc = "done", !.status = 400]
                ELSE [IdleWh EXCEPT !.kind = "admin", !.verified = TRUE,
                                    !.email = email, !.before = license,
                                    !.plan = IF plan \in {"free", "starter", "pro", "business"}
                                            THEN plan ELSE "starter",
                                    !.beforeKey = emailIdx[email],
                                    !.pc = IF env.kv THEN "w_email" ELSE "done",
                                    !.status = IF env.kv THEN 0 ELSE 500]]
    /\ UNCHANGED <<now, env, license, emailIdx, zset, ttl, req, admitted>>

\* res.status(200).json({received: true})
WhFinish(d) ==
    /\ wh[d].pc = "done"
    /\ wh' = [wh EXCEPT ![d] = IdleWh]
    /\ UNCHANGED <<now, env, license, emailIdx, zset, ttl, req, admitted, nreq>>

-----------------------------------------------------------------------------
(* Inputs and initial states *)

LicenseOf(k, email, plan, status, used, reset) ==
    [key |-> k, email |-> email, plan |-> plan, status |-> status,
     tasksUsedThisMonth |-> used, monthResetDate |-> reset]

\* plan identifiers a stored license can carry; "legacy" is not in the catalog
PlanIds == {"free", "starter", "pro", "business", "legacy"}

\* usage counters a license of the plan can have reached
UsedChoices(plan) ==
    IF PlanConfig(plan).taskLimit = UNLIMITED THEN {TASKS_PRO}
    ELSE {PlanConfig(plan).taskLimit - 1, PlanConfig(plan).taskLimit}

\* the records key K1 can hold when a behaviour starts at time t
InitLicenses(t) ==
    UNION {{LicenseOf("K1", "E1", plan, "active", used, getNextMonthReset(t)) :
               used \in UsedChoices(plan)} : plan \in PlanIds}
    \cup {LicenseOf("K1", "E1", "starter", "expired", 0, getNextMonthReset(t))}

\* n entries of score t
Entries(n, t) == IF n = 0 THEN EmptyBag ELSE [x \in {t} |-> n]

\* deployments with the store configured (KV_REST_API_URL, KV_REST_API_TOKEN)
Envs ==
    {[kv |-> TRUE, apiKeys |-> Providers, stripe |-> TRUE, whSecret |-> TRUE],
     [kv |-> TRUE, apiKeys |-> Providers \ {"openai"}, stripe |-> TRUE,
      whSecret |-> TRUE]}

HeaderInputs ==
    {[xkey |-> x, bearer |-> b] : x \in {NoKey, "K1"}, b \in {NoKey, "K1", "KX"}}

Body(modelKind, model, msgsKind, messages, stream) ==
    [kind |-> "json", modelKind |-> modelKind, model |-> model,
     msgsKind |-> msgsKind, messages |-> messages, stream |-> stream]

BodyInputs ==
    {NoBody,
     Body("absent", <<>>, "array", <<"user">>, FALSE),
     Body("number", <<>>, "array", <<"user">>, FALSE),
     Body("string", m_gpt4omini, "absent", <<>>, FALSE),
     Body("string", m_gpt4omini, "array", <<>>, FALSE)}
    \cup {Body("string", m, "array", <<"user">>, FALSE) :
             m \in {m_gpt4omini, m_claudeopus, m_unknown}}
    \cup {Body("string", m_gpt4omini, "array", <<"system", "user">>, TRUE)}

\* the common part of the initial states: the license of K1 and its window
InitStore(lic, n) ==
    /\ now = WINDOW_MS
    /\ license = [k \in AllKeys |-> IF k = "K1" THEN lic ELSE NoRec]
    /\ emailIdx = [e \in Emails |-> IF e = "E1" THEN "K1" ELSE NoKey]
    /\ zset = [k \in AllKeys |-> IF k = "K1" THEN Entries(n, WINDOW_MS) ELSE EmptyBag]
    /\ ttl = [k \in AllKeys |->
                 IF k = "K1" /\ n > 0
                 THEN WINDOW_MS + (Ceil(WINDOW_MS, 1000) + TTL_BUFFER_S) * 1000 ELSE 0]
    /\ admitted = zset
    /\ req = [p \in Procs |-> IdleReq]
    /\ wh = [d \in Procs |-> IdleWh]
    /\ nreq = 0

-----------------------------------------------------------------------------
(* Spec: the proxy handler, one request at a time, any store command may fail *)

Init ==
    /\ env \in Envs
    /\ \E lic \in InitLicenses(WINDOW_MS) :
          \E n \in {0, RateLimitOf(lic.plan) - 1} : InitStore(lic, n)

Next ==
    \/ \E h \in HeaderInputs, body \in BodyInputs : Start("p1", h, body)
    \/ \E ok \in BOOLEAN : GetLicense("p1", ok)
    \/ \E ok \in BOOLEAN : ZRem("p1", ok)
    \/ \E ok \in BOOLEAN : ZCardStep("p1", ok)
    \/ \E ok \in BOOLEAN : ZRangeStep("p1", ok)
    \/ \E ok \in BOOLEAN : ZAddStep("p1", ok)
    \/ \E ok \in BOOLEAN : ExpireStep("p1", ok)
    \/ \E ok \in BOOLEAN : IncGet("p1", ok)
    \/ \E ok \in BOOLEAN : IncSet("p1", ok)
    \/ \E ok \in BOOLEAN : IncSetEmail("p1", ok)
    \/ \E u \in UpstreamReplies, tt \in BOOLEAN : Fetch("p1", u, tt)
    \/ \E rf \in BOOLEAN, wt \in BOOLEAN : StreamStep("p1", rf, wt)
    \/ ClientClose("p1")
    \/ Finish("p1")
    \/ Tick(WINDOW_MS, MaxNow)

Spec == Init /\ [][Next]_vars

-----------------------------------------------------------------------------
(* SpecLimiter: checkRateLimit called on one key, one call at a time, against *)
(* a store that answers every command                                         *)

InitLimiter ==
    /\ env = [kv |-> TRUE, apiKeys |-> Providers, stripe |-> TRUE, whSecret |-> TRUE]
    /\ \E plan \in PlanIds \cup {"pro"} :
          InitStore(LicenseOf("K1", "E1", plan, "active", 0,
                              getNextMonthReset(WINDOW_MS)), 0)

NextLimiter ==
    \/ CallLimiter("p1", "K1", PlanOf(license["K1"]))
    \/ ZRem("p1", TRUE)
    \/ ZCardStep("p1", TRUE)
    \/ ZRangeStep("p1", TRUE)
    \/ ZAddStep("p1", TRUE)
    \/ ExpireStep("p1", TRUE)
    \/ Finish("p1")
    \/ \E d \in {WINDOW_MS - 1, WINDOW_MS} : Tick(d, LimiterHorizon)

SpecLimiter == InitLimiter /\ [][NextLimiter]_vars

-----------------------------------------------------------------------------
(* SpecConc: concurrent proxy requests of one license and a webhook delivery *)
(* for its email, interleaved at every store command; the store answers      *)
(* every command                                                              *)

ValidBody == Body("string", m_gpt4omini, "array", <<"user">>, FALSE)

InitConc ==
    /\ env = [kv |-> TRUE, apiKeys |-> Providers, stripe |-> TRUE, whSecret |-> TRUE]
    /\ \E plan \in {"free", "business"} : \E used \in UsedChoices(plan) :
       \E n \in {0, RateLimitOf(plan) - 1} :
          InitStore(LicenseOf("K1", "E1", plan, "active", used,
                              getNextMonthReset(WINDOW_MS)), n)

NextConc ==
    \/ \E p \in Procs : Start(p, [xkey |-> "K1", bearer |-> NoKey], ValidBody)
    \/ \E p \in Procs : GetLicense(p, TRUE)
    \/ \E p \in Procs : ZRem(p, TRUE)
    \/ \E p \in Procs : ZCardStep(p, TRUE)
    \/ \E p \in Procs : ZRangeStep(p, TRUE)
    \/ \E p \in Procs : ZAddStep(p, TRUE)
    \/ \E p \in Procs : ExpireStep(p, TRUE)
    \/ \E p \in Procs : IncGet(p, TRUE)
    \/ \E p \in Procs : IncSet(p, TRUE)
    \/ \E p \in Procs : IncSetEmail(p, TRUE)
    \/ \E p \in Procs, u \in UpstreamReplies : Fetch(p, u, TRUE)
    \/ \E p \in Procs : Finish(p)
    \/ \E plan \in {"starter"} : WhStart("p1", "E1", plan)
    \/ \E k \in Keys : WhEmail("p1", TRUE, k)
    \/ \E k \in Keys : WhLic("p1", TRUE, k)
    \/ SvEmail("p1", TRUE)
    \/ SvLic("p1", TRUE)
    \/ SvSet("p1", TRUE)
    \/ SvSetEmail("p1", TRUE)
    \/ WhFinish("p1")

SpecConc == InitConc /\ [][NextConc]_vars

-----------------------------------------------------------------------------
(* SpecAnyEnv: Spec, and also the deployment whose store is not configured, *)
(* where redisCommand throws                                                *)

InitAnyEnv ==
    /\ env \in Envs \cup {[kv |-> FALSE, apiKeys |-> Providers, stripe |-> TRUE, whSecret |-> TRUE]}
    /\ \E lic \in InitLicenses(WINDOW_MS) :
          \E n \in {0, RateLimitOf(lic.plan) - 1} : InitStore(lic, n)

SpecAnyEnv == InitAnyEnv /\ [][Next]_vars

-----------------------------------------------------------------------------
(* SpecOutage: checkRateLimit called on one key while no command of the      *)
(* store succeeds: the store is not configured (redisCommand throws) or not  *)
(* reachable (redisCommand returns null)                                     *)

InitOutage ==
    /\ env \in {[kv |-> kv, apiKeys |-> Providers, stripe |-> TRUE, whSecret |-> TRUE] : kv \in BOOLEAN}
    /\ \E plan \in PlanIds :
       \E n \in {0, RateLimitOf(plan)} :
          InitStore(LicenseOf("K1", "E1", plan, "active", 0,
                              getNextMonthReset(WINDOW_MS)), n)

NextOutage ==
    \/ /\ BagCardinality(admitted["K1"])
             < RateLimitOf(PlanOf(license["K1"])) + MaxOutageCalls
       /\ CallLimiter("p1", "K1", PlanOf(license["K1"]))
    \/ ZRem("p1", FALSE)
    \/ ZCardStep("p1", FALSE)
    \/ ZAddStep("p1", FALSE)
    \/ ExpireStep("p1", FALSE)
    \/ Finish("p1")
    \/ \E d \in {WINDOW_MS - 1, WINDOW_MS} : Tick(d, LimiterHorizon)

SpecOutage == InitOutage /\ [][NextOutage]_vars

-----------------------------------------------------------------------------
(* SpecRace: concurrent checkRateLimit calls on one key of the free plan,    *)
(* interleaved at every store command, the clock moving a millisecond a step *)

InitRace ==
    /\ env = [kv |-> TRUE, apiKeys |-> Providers, stripe |-> TRUE, whSecret |-> TRUE]
    /\ \E n \in {0, RATE_FREE - 1} :
          InitStore(LicenseOf("K1", "E1", "free", "active", 0,
                              getNextMonthReset(WINDOW_MS)), n)

NextRace ==
    \/ \E p \in Procs : CallLimiter(p, "K1", "free")
    \/ \E p \in Procs : ZRem(p, TRUE)
    \/ \E p \in Procs : ZCardStep(p, TRUE)
    \/ \E p \in Procs : ZRangeStep(p, TRUE)
    \/ \E p \in Procs : ZAddStep(p, TRUE)
    \/ \E p \in Procs : ExpireStep(p, TRUE)
    \/ \E p \in Procs : Finish(p)
    \/ Tick(1, RaceHorizon)

SpecRace == InitRace /\ [][NextRace]_vars

-----------------------------------------------------------------------------
(* SpecStream: streaming requests of an unlimited license, one at a time,    *)
(* over every upstream body of at most two chunks                            *)

StreamBody == Body("string", m_gpt4omini, "array", <<"system", "user">>, TRUE)

Bytes == {"a", "L", "C"}

\* the chunks of 1 to MaxChunkLen bytes
Chunks == UNION {[1..n -> Bytes] : n \in 1..MaxChunkLen}

\* upstream bodies that arrive in no, one or two chunks
StreamBodies == {<<>>} \cup {<<c>> : c \in Chunks} \cup {<<c, d>> : c, d \in Chunks}

StreamReplies ==
    {UpstreamReply("ok", 200, RawBody("object", NoErr, "", ""), b) : b \in StreamBodies}
    \cup {u \in UpstreamReplies : u.kind # "ok"}

InitStream ==
    /\ env = [kv |-> TRUE, apiKeys |-> Providers, stripe |-> TRUE, whSecret |-> TRUE]
    /\ InitStore(LicenseOf("K1", "E1", "business", "active", 0,
                           getNextMonthReset(WINDOW_MS)), 0)

NextStream ==
    \/ Start("p1", [xkey |-> "K1", bearer |-> NoKey], StreamBody)
    \/ GetLicense("p1", TRUE)
    \/ ZRem("p1", TRUE)
    \/ ZCardStep("p1", TRUE)
    \/ ZAddStep("p1", TRUE)
    \/ ExpireStep("p1", TRUE)
    \/ IncGet("p1", TRUE)
    \/ IncSet("p1", TRUE)
    \/ IncSetEmail("p1", TRUE)
    \/ \E u \in StreamReplies, tt \in BOOLEAN : Fetch("p1", u, tt)
    \/ \E rf \in BOOLEAN, wt \in BOOLEAN : StreamStep("p1", rf, wt)
    \/ ClientClose("p1")
    \/ Finish("p1")

SpecStream == InitStream /\ [][NextStream]_vars

-----------------------------------------------------------------------------
(* SpecMethods: the requests to /api/ai that are not a POST and the requests *)
(* to /api/verify, one at a time, any lookup may fail, while another unit of *)
(* execution calls the limiter for the license                               *)

NextMethods ==
    \/ \E method \in {"OPTIONS", "GET", "DELETE"} : Preflight("p1", method)
    \/ \E h \in HeaderInputs : VerifyStart("p1", h)
    \/ \E ok \in BOOLEAN : VerifyGet("p1", ok)
    \/ Finish("p1")
    \/ CallLimiter("p2", "K1", PlanOf(license["K1"]))
    \/ ZRem("p2", TRUE)
    \/ ZCardStep("p2", TRUE)
    \/ ZRangeStep("p2", TRUE)
    \/ ZAddStep("p2", TRUE)
    \/ ExpireStep("p2", TRUE)
    \/ Finish("p2")

SpecMethods == Init /\ [][NextMethods]_vars

-----------------------------------------------------------------------------
(* SpecConfig: isModelAllowed and getProviderFromModel of src/lib/config.ts *)
(* applied to a plan identifier and a model string                          *)

\* names every JavaScript object inherits from Object.prototype: PLANS[name]
\* is then a member of the prototype, which is truthy and has no models
Inherited == {"constructor", "toString"}

\* model strings: catalog entries, longer and shorter strings, strings that
\* contain an entry or a provider prefix without starting with it
ModelInputs ==
    {m_gpt4omini, m_gpt4o, m_gpt4omini2024, m_o3mini, m_gemini20flash, m_gemini25pro,
     m_claudesonnet, m_claudeopus, m_deepseekchat, m_deepseekreasoner, m_unknown,
     <<>>, s_gpt, <<"g","p","t">>, SubSeq(m_gpt4omini, 1, 8),
     <<"x","-">> \o m_gpt4omini, <<"G","P","T","-","4","o">>,
     s_o1 \o <<"m","i","n","i">>, <<"o","4","-","m","i","n","i">>,
     <<"m","y","-">> \o s_claude \o <<"x">>, s_claude \o <<"x">>}

InitConfig ==
    /\ now = WINDOW_MS
    /\ env = [kv |-> TRUE, apiKeys |-> Providers, stripe |-> TRUE, whSecret |-> TRUE]
    /\ license = NoStore
    /\ emailIdx = [e \in Emails |-> NoKey]
    /\ zset = [k \in AllKeys |-> EmptyBag]
    /\ ttl = [k \in AllKeys |-> 0]
    /\ admitted = zset
    /\ wh = [d \in Procs |-> IdleWh]
    /\ nreq = 0
    /\ \E plan \in PlanIds \cup {""} \cup Inherited, model \in ModelInputs :
          req = [p \in Procs |->
                    IF p = "p1"
                    THEN [IdleReq EXCEPT !.pc = "input", !.direct = TRUE, !.plan = plan,
                                         !.body = Body("string", model, "absent", <<>>, FALSE)]
                    ELSE IdleReq]

\* the two functions are called; for an inherited name isModelAllowed calls
\* .some on undefined, which throws
Evaluate(p) ==
    /\ req[p].pc = "input"
    /\ LET r == req[p]
       IN req' = [req EXCEPT ![p] =
                    [r EXCEPT !.pc = "done",
                              !.provider = getProviderFromModel(r.body.model),
                              !.allowed = IF r.plan \in Inherited THEN "throws"
                                          ELSE IF isModelAllowed(r.plan, r.body.model)
                                          THEN "true" ELSE "false"]]
    /\ UNCHANGED <<now, env, license, emailIdx, zset, ttl, wh, admitted, nreq>>

NextConfig ==
    \/ Evaluate("p1")

SpecConfig == InitConfig /\ [][NextConfig]_vars

-----------------------------------------------------------------------------
(* SpecWebhook: deliveries to POST /api/webhook, one at a time, in every     *)
(* configuration of the two Stripe secrets, against a store that answers     *)
(* every command and that holds the license of one paying email              *)

InitWebhook ==
    /\ env \in {[kv |-> TRUE, apiKeys |-> Providers, stripe |-> st, whSecret |-> ws] :
                   st \in BOOLEAN, ws \in BOOLEAN}
    /\ InitStore(LicenseOf("K1", "E1", "free", "active", TASKS_FREE - 1,
                           getNextMonthReset(WINDOW_MS)), 0)

NextWebhook ==
    \/ \E sig \in {"none", "bad", "good"} : WhReject("p1", sig)
    \/ \E email \in Emails \cup {None}, plan \in {"starter", "pro"} : WhStart("p1", email, plan)
    \/ \E k \in Keys : WhEmail("p1", TRUE, k)
    \/ \E k \in Keys : WhLic("p1", TRUE, k)
    \/ SvEmail("p1", TRUE)
    \/ SvLic("p1", TRUE)
    \/ SvSet("p1", TRUE)
    \/ SvSetEmail("p1", TRUE)
    \/ CrSet("p1", TRUE)
    \/ CrSetEmail("p1", TRUE)
    \/ WhFinish("p1")

SpecWebhook == InitWebhook /\ [][NextWebhook]_vars

-----------------------------------------------------------------------------
(* SpecWindow: checkRateLimit called on a free-plan key, one call at a time, *)
(* against a store that answers every command, at the instants around the   *)
(* end of the window of the first entries                                    *)

InitWindow ==
    /\ env = [kv |-> TRUE, apiKeys |-> Providers, stripe |-> TRUE, whSecret |-> TRUE]
    /\ \E n \in {0, 1} :
          InitStore(LicenseOf("K1", "E1", "free", "active", 0,
                              getNextMonthReset(WINDOW_MS)), n)

NextWindow ==
    \/ CallLimiter("p1", "K1", "free")
    \/ ZRem("p1", TRUE)
    \/ ZCardStep("p1", TRUE)
    \/ ZRangeStep("p1", TRUE)
    \/ ZAddStep("p1", TRUE)
    \/ ExpireStep("p1", TRUE)
    \/ Finish("p1")
    \/ Tick(1, WINDOW_MS + 1)
    \/ Tick(WINDOW_MS - 1, WindowHorizon - 1)
    \/ (now >= 2 * WINDOW_MS - 1 /\ Tick(1, WindowHorizon))

SpecWindow == InitWindow /\ [][NextWindow]_vars

-----------------------------------------------------------------------------
(* SpecRelayFns: the functions of src/api/ai.ts that shape what is relayed, *)
(* applied to inputs of every kind: normalizeProviderError and the request  *)
(* translators buildAnthropicRequest and buildGeminiRequest                 *)

MaxMessages == 3

\* body.max_tokens || 4096: a value of 0 counts as absent
buildAnthropicRequest(body) ==
    LET systemMessages == SelectSeq(body.messages, LAMBDA m : m.role = "system")
    IN [url |-> "https://api.anthropic.com/v1/messages",
        messages |-> SelectSeq(body.messages,
                                       LAMBDA m : m.role # "system"),
        hasSystem |-> systemMessages # <<>>,
        system |-> IF systemMessages # <<>> THEN systemMessages[1].content ELSE "",
        hasMaxTokens |-> TRUE,
        max_tokens |-> IF body.hasMaxTokens /\ body.max_tokens # 0
                       THEN body.max_tokens ELSE ANTHROPIC_DEFAULT_MAX_TOKENS,
        stream |-> body.stream]

buildGeminiRequest(body) ==
    LET systemMessages == SelectSeq(body.messages, LAMBDA m : m.role = "system")
        nonSystemMessages == SelectSeq(body.messages,
                                       LAMBDA m : m.role # "system")
    IN [url |-> IF body.stream = "true" THEN ":streamGenerateContent"
                ELSE ":generateContent",
        messages |-> [i \in 1..Len(nonSystemMessages) |->
                        [role |-> IF nonSystemMessages[i].role = "assistant"
                                  THEN "model" ELSE "user",
                         parts |-> <<[text |-> nonSystemMessages[i].content]>>]],
        hasSystem |-> systemMessages # <<>>,
        system |-> IF systemMessages # <<>> THEN systemMessages[1].content ELSE "",
        hasMaxTokens |-> body.hasMaxTokens,
        max_tokens |-> body.max_tokens,
        stream |-> "undefined"]

\* upstream error bodies: not JSON, an object without an error member, the
\* anthropic envelope {type: "error", message}, objects whose error member has
\* some or all of message, type, code and status, and gemini's array wrapping
ErrorBodies ==
    {RawBody("text", NoErr, "", ""),
     RawBody("object", NoErr, "", ""),
     RawBody("object", NoErr, "error", "Overloaded")}
    \cup {RawBody(shape, [message |-> msg, type |-> type, code |-> code, status |-> st],
                  "", "") :
             shape \in {"object", "array"}, msg \in {"", "quota"},
             type \in {"", "insufficient_quota"}, code \in {"", "429"},
             st \in {"", "RESOURCE_EXHAUSTED"}}

InitRelayFns ==
    /\ now = WINDOW_MS
    /\ env = [kv |-> TRUE, apiKeys |-> Providers, stripe |-> TRUE, whSecret |-> TRUE]
    /\ license = NoStore
    /\ emailIdx = [e \in Emails |-> NoKey]
    /\ zset = [k \in AllKeys |-> EmptyBag]
    /\ ttl = [k \in AllKeys |-> 0]
    /\ admitted = zset
    /\ wh = [d \in Procs |-> IdleWh]
    /\ nreq = 0
    /\ \/ \E provider \in Providers \cup {"mistral"},
             status \in {400, 401, 403, 404, 429, 500, 502, 503, 529},
             body \in ErrorBodies :
             req = [p \in Procs |->
                       IF p = "p1"
                       THEN [IdleReq EXCEPT !.pc = "n_input", !.direct = TRUE,
                                            !.provider = provider,
                                            !.up = UpstreamReply("error", status, body,
                                                                 <<>>)]
                       ELSE IdleReq]
       \/ \E provider \in {"anthropic", "gemini"},
             n \in 1..MaxMessages,
             stream \in {"undefined", "false", "true"},
             mt \in {[set |-> FALSE, v |-> 0], [set |-> TRUE, v |-> 0],
                     [set |-> TRUE, v |-> 1], [set |-> TRUE, v |-> 8192]} :
             \E msgs \in [1..n -> [role : {"system", "user", "assistant", "tool"},
                                   content : {"a", "b"}]] :
                req = [p \in Procs |->
                          IF p = "p1"
                          THEN [IdleReq EXCEPT !.pc = "t_input", !.direct = TRUE,
                                               !.provider = provider,
                                               !.canon = [messages |-> msgs,
                                                          hasMaxTokens |-> mt.set,
                                                          max_tokens |-> mt.v,
                                                          stream |-> stream]]
                          ELSE IdleReq]

\* normalizeProviderError(provider, statusCode, rawBody) is called
Normalize(p) ==
    /\ req[p].pc = "n_input"
    /\ req' = [req EXCEPT ![p].pc = "done",
                          ![p].norm = normalizeProviderError(req[p].provider,
                                                             req[p].up.status,
                                                             req[p].up.body)]
    /\ UNCHANGED <<now, env, license, emailIdx, zset, ttl, wh, admitted, nreq>>

\* the translator of the request's provider is called on the canonical request
Translate(p) ==
    /\ req[p].pc = "t_input"
    /\ req' = [req EXCEPT ![p].pc = "done",
                          ![p].payload = IF req[p].provider = "anthropic"
                                         THEN buildAnthropicRequest(req[p].canon)
                                         ELSE buildGeminiRequest(req[p].canon)]
    /\ UNCHANGED <<now, env, license, emailIdx, zset, ttl, wh, admitted, nreq>>

NextRelayFns ==
    \/ Normalize("p1")
    \/ Translate("p1")

SpecRelayFns == InitRelayFns /\ [][NextRelayFns]_vars

-----------------------------------------------------------------------------
(* SpecSeq: the proxy handler, one request at a time, against a store that  *)
(* answers every command; the GET of incrementTaskCount may still find no   *)
(* record                                                                    *)

NextSeq ==
    \/ \E h \in HeaderInputs, body \in BodyInputs : Start("p1", h, body)
    \/ GetLicense("p1", TRUE)
    \/ ZRem("p1", TRUE)
    \/ ZCardStep("p1", TRUE)
    \/ ZRangeStep("p1", TRUE)
    \/ ZAddStep("p1", TRUE)
    \/ ExpireStep("p1", TRUE)
    \/ \E found \in BOOLEAN : IncGet("p1", found)
    \/ IncSet("p1", TRUE)
    \/ IncSetEmail("p1", TRUE)
    \/ \E u \in UpstreamReplies, tt \in BOOLEAN : Fetch("p1", u, tt)
    \/ \E rf \in BOOLEAN, wt \in BOOLEAN : StreamStep("p1", rf, wt)
    \/ ClientClose("p1")
    \/ Finish("p1")
    \/ Tick(WINDOW_MS, MaxNow)

SpecSeq == Init /\ [][NextSeq]_vars

-----------------------------------------------------------------------------
(* SpecRaceWindow: SpecRace with the clock at the instants around the end of *)
(* the window of the first entries                                           *)

NextRaceWindow ==
    \/ \E p \in Procs : CallLimiter(p, "K1", "free")
    \/ \E p \in Procs : ZRem(p, TRUE)
    \/ \E p \in Procs : ZCardStep(p, TRUE)
    \/ \E p \in Procs : ZRangeStep(p, TRUE)
    \/ \E p \in Procs : ZAddStep(p, TRUE)
    \/ \E p \in Procs : ExpireStep(p, TRUE)
    \/ \E p \in Procs : Finish(p)
    \/ Tick(1, WINDOW_MS + 1)
    \/ Tick(WINDOW_MS - 1, WindowHorizon - 1)
    \/ (now >= 2 * WINDOW_MS - 1 /\ Tick(1, WindowHorizon))

SpecRaceWindow == InitRace /\ [][NextRaceWindow]_vars

-----------------------------------------------------------------------------
(* SpecIssue: the operations that write licenses, interleaved at every store *)
(* command against a store that answers: two deliveries at a time (checkout   *)
(* events for one email, subscription events, admin create-license) and a     *)
(* proxy request, from an empty store or from one license                     *)

InitIssue ==
    /\ now = WINDOW_MS
    /\ env = [kv |-> TRUE, apiKeys |-> Providers, stripe |-> TRUE, whSecret |-> TRUE]
    /\ \E lic \in {NoRec, LicenseOf("K1", "E1", "free", "active", 0,
                                    getNextMonthReset(WINDOW_MS))} :
          /\ license = [k \in AllKeys |-> IF k = "K1" THEN lic ELSE NoRec]
          /\ emailIdx = [e \in Emails |-> IF e = "E1" /\ lic # NoRec THEN "K1" ELSE NoKey]
    /\ zset = [k \in AllKeys |-> EmptyBag]
    /\ ttl = [k \in AllKeys |-> 0]
    /\ admitted = zset
    /\ req = [p \in Procs |-> IdleReq]
    /\ wh = [d \in Procs |-> IdleWh]
    /\ nreq = 0

NextIssue ==
    \/ \E d \in Procs : WhStart(d, "E1", "starter")
    \/ \E d \in Procs, type \in {"customer.subscription.updated",
                                 "customer.subscription.deleted"} : WhOther(d, type)
    \/ \E d \in Procs, auth \in BOOLEAN, email \in {"E1", None},
          plan \in {"pro", "legacy"} : AdminStart(d, auth, email, plan)
    \/ \E d \in Procs, k \in Keys : WhEmail(d, TRUE, k)
    \/ \E d \in Procs, k \in Keys : WhLic(d, TRUE, k)
    \/ \E d \in Procs : SvEmail(d, TRUE)
    \/ \E d \in Procs : SvLic(d, TRUE)
    \/ \E d \in Procs : SvSet(d, TRUE)
    \/ \E d \in Procs : SvSetEmail(d, TRUE)
    \/ \E d \in Procs : CrSet(d, TRUE)
    \/ \E d \in Procs : CrSetEmail(d, TRUE)
    \/ \E d \in Procs : WhFinish(d)
    \/ Start("p1", [xkey |-> "K1", bearer |-> NoKey], ValidBody)
    \/ GetLicense("p1", TRUE)
    \/ ZRem("p1", TRUE)
    \/ ZCardStep("p1", TRUE)
    \/ ZAddStep("p1", TRUE)
    \/ ExpireStep("p1", TRUE)
    \/ IncGet("p1", TRUE)
    \/ IncSet("p1", TRUE)
    \/ IncSetEmail("p1", TRUE)
    \/ \E u \in UpstreamReplies : Fetch("p1", u, FALSE)
    \/ Finish("p1")

SpecIssue == InitIssue /\ [][NextIssue]_vars

-----------------------------------------------------------------------------
(* Properties of the proxy's admission gates *)

\* the sequence 1, 2, ..., k
GatesUpTo(k) == [i \in 1..k |-> i]

\* the first gate at which the handler must stop a finished request, from what
\* the request carried and what the store answered it: <<gate, status, code>>;
\* gate 9 stands for "none"; the two 500 entries are a body that cannot be
\* destructured and a model that is not a string, which end in the catch block
FirstStop(r, e) ==
    IF r.key = NoKey THEN <<1, 401, "missing_license_key">>
    ELSE IF r.lic = NoRec \/ r.lic.status # "active"
    THEN <<2, 401, "invalid_license_key">>
    ELSE IF r.count >= RateLimitOf(PlanOf(r.lic)) THEN <<3, 429, "rate_limit_exceeded">>
    ELSE IF r.body.kind = "none" THEN <<4, 500, "internal_error">>
    ELSE IF r.body.modelKind = "absent" \/ (r.body.modelKind = "string" /\ Len(r.body.model) = 0)
            \/ r.body.msgsKind # "array" \/ r.body.messages = <<>>
    THEN <<4, 400, None>>
    ELSE IF r.body.modelKind # "string" THEN <<5, 500, "internal_error">>
    ELSE IF ~isModelAllowed(PlanOf(r.lic), r.body.model)
    THEN <<5, 403, "model_not_allowed">>
    ELSE IF PlanConfig(PlanOf(r.lic)).taskLimit # UNLIMITED
            /\ r.lic.tasksUsedThisMonth >= PlanConfig(PlanOf(r.lic)).taskLimit
    THEN <<6, 429, "task_limit_reached">>
    ELSE IF getProviderFromModel(r.body.model) = None THEN <<7, 400, "unknown_model">>
    ELSE IF getProviderFromModel(r.body.model) \notin e.apiKeys
    THEN <<8, 503, "provider_not_configured">>
    ELSE <<9, 0, None>>

InSpan(b, lo, hi) ==
    BagCardinality([x \in {y \in DOMAIN b : lo < y /\ y <= hi} |-> b[x]])

\* the per-minute limits of the documentation's table
DocumentedLimit(plan) ==
    CASE plan = "free" -> 5
      [] plan = "starter" -> 15
      [] plan = "pro" -> 30
      [] plan = "business" -> 60
      [] OTHER -> 5

\* C2: with calls on a key made one at a time against a store that answers, a
\* call is never allowed when limit(plan) calls were already allowed in the 60
\* seconds that end with it: the calls allowed in any such span, the allowed
\* call included, number at most limit(plan) = 5, 15, 30, 60 for free, starter,
\* pro, business.
C2_DeniedAfterLimit ==
    \A p \in Procs :
        LET r == req[p]
        IN (r.pc = "done" /\ r.direct /\ r.rate.allowed) =>
              InSpan(admitted[r.key], r.rlNow - WINDOW_MS, r.rlNow)
                 <= DocumentedLimit(r.plan)

\* a business key with 60 calls allowed in the span is denied the 61st
C2_Witness ==
    \E p \in Procs :
        /\ req[p].pc = "done" /\ req[p].direct
        /\ ~req[p].rate.allowed
        /\ req[p].plan = "business"
        /\ InSpan(admitted[req[p].key], req[p].rlNow - WINDOW_MS, req[p].rlNow) = 60

\* C3: every response of the POST endpoint carries X-RateLimit-Limit and
\* X-RateLimit-Remaining.
C3_EveryResponseHasRateHeaders ==
    \A p \in Procs :
        (req[p].pc = "done" /\ ~req[p].direct) =>
            {"X-RateLimit-Limit", "X-RateLimit-Remaining"}
                \subseteq DOMAIN req[p].resp.headers

\* C4: a request that passed gates 1 to 8 reaches its upstream call only from
\* the completed write of incrementTaskCount, that write leaves the stored
\* counter 1 above what the store held (or at 1, when the month turned), the
\* call is the request's only one, and the relay of the call's outcome leaves
\* the license store as it is.
C4_IncrementThenOneCall ==
    [][\A p \in Procs :
          LET r == req[p]
              k == r.key
          IN /\ (r.pc # "fetch" /\ req'[p].pc = "fetch") =>
                    (r.pc = "incSetEmail" /\ req'[p].calls = 1)
             /\ (r.pc = "incSet" /\ req'[p].pc = "incSetEmail") =>
                    license'[k].tasksUsedThisMonth =
                        IF now >= license[k].monthResetDate THEN 1
                        ELSE license[k].tasksUsedThisMonth + 1
             /\ (r.pc = "fetch" /\ req'[p].pc = "done") => license' = license
      ]_vars

\* C5: at the quota gate, a license of a plan with a finite task limit whose
\* tasksUsedThisMonth has reached the limit is answered 429, rate_limit_error,
\* task_limit_reached; a license of an unlimited plan (-1) is never answered
\* task_limit_reached.
C5_QuotaGate ==
    \A p \in Procs :
        LET r == req[p]
            limit == IF r.plan \in DOMAIN PLANS THEN PLANS[r.plan].taskLimit
                     ELSE PLANS["free"].taskLimit
        IN (~r.direct /\ Len(r.gates) >= 6) =>
              IF limit # -1 /\ r.lic.tasksUsedThisMonth >= limit
              THEN /\ r.pc = "done"
                   /\ r.resp.status = 429
                   /\ r.resp.type = "rate_limit_error"
                   /\ r.resp.code = "task_limit_reached"
                   /\ r.gates = <<1, 2, 3, 4, 5, 6>>
              ELSE r.resp.code # "task_limit_reached" /\ Len(r.gates) > 6

\* a license at its plan's limit was stopped at the quota gate
C5_Witness ==
    \E p \in Procs :
        /\ req[p].pc = "done" /\ ~req[p].direct
        /\ req[p].resp.code = "task_limit_reached"
        /\ req[p].lic.tasksUsedThisMonth = PlanConfig(req[p].plan).taskLimit

\* C6: a request that arrives at or after the license's monthResetDate is judged
\* against the reset counter, so it is never answered task_limit_reached; and
\* monthResetDate moves only when it has been reached, to a later date, the
\* counter restarting at 1 for the request that moved it.
C6_ResetAtFirstRequestOfMonth ==
    /\ [](\A p \in Procs :
            LET r == req[p]
            IN (r.pc = "done" /\ ~r.direct /\ r.lic # NoRec
                /\ r.lic.status = "active" /\ r.at >= r.lic.monthResetDate)
               => r.resp.code # "task_limit_reached")
    /\ [][\A k \in AllKeys :
            (license[k] # NoRec /\ license'[k] # NoRec
             /\ license'[k].monthResetDate # license[k].monthResetDate)
            => /\ now >= license[k].monthResetDate
               /\ license'[k].monthResetDate > now
               /\ license'[k].tasksUsedThisMonth = 1]_vars

\* C7: while monthResetDate stays the same, the stored tasksUsedThisMonth of a
\* license does not decrease, whatever the interleaving of proxy requests and
\* webhook updates.
C7_CounterNeverDecreases ==
    [][\A k \in AllKeys :
          (license[k] # NoRec /\ license'[k] # NoRec
           /\ license'[k].monthResetDate = license[k].monthResetDate)
          => license'[k].tasksUsedThisMonth >= license[k].tasksUsedThisMonth]_vars

\* the responses of gates 1 to 8
GateRejection(resp) ==
    \/ resp.code \in {"missing_license_key", "invalid_license_key",
                      "rate_limit_exceeded", "model_not_allowed",
                      "task_limit_reached", "unknown_model",
                      "provider_not_configured"}
    \/ resp.status = 400 /\ resp.type = "invalid_request_error" /\ resp.code = None

\* C8: a request that holds the rejection of one of gates 1 to 8 has left the
\* license store as it found it and has made no upstream call.
C8_RejectionHasNoEffect ==
    \A p \in Procs :
        (~req[p].direct /\ GateRejection(req[p].resp)) =>
            /\ license = req[p].before
            /\ req[p].calls = 0

\* a request stopped at gate 8 (503) with the license as it was
C8_Witness ==
    \E p \in Procs :
        /\ req[p].pc = "done" /\ ~req[p].direct
        /\ req[p].resp.status = 503
        /\ req[p].resp.code = "provider_not_configured"
        /\ license = req[p].before

\* C9: a key without a license record and a key whose license is not active
\* receive one and the same response: 401, authentication_error,
\* invalid_license_key, the same message and the same (empty) set of headers.
C9_SameResponseForMissingAndInactive ==
    \A p \in Procs :
        LET r == req[p]
        IN (r.pc = "done" /\ ~r.direct /\ r.key # NoKey
            /\ (r.lic = NoRec \/ r.lic.status # "active")) =>
              r.resp = [status |-> 401, type |-> "authentication_error",
                        code |-> "invalid_license_key",
                        message |-> <<"Invalid or expired license key. Please check your key or renew your subscription.">>,
                        headers |-> NoHeaders]

\* the key of an expired license was answered invalid_license_key
C9_Witness ==
    \E p \in Procs :
        /\ req[p].pc = "done" /\ ~req[p].direct
        /\ req[p].lic # NoRec /\ req[p].lic.status = "expired"
        /\ req[p].resp.code = "invalid_license_key"

\* a key that is not the key of an active license
InvalidKey(k) == k # NoKey /\ (license[k] = NoRec \/ license[k].status # "active")

\* C10: every step of a request that carries an invalid key leaves the license
\* store, the email index and every key's rate-limit set and expiry unchanged,
\* and the request ends with 401 and invalid_license_key, whatever came before.
C10_InvalidKeyIsIdempotent ==
    [][\A p \in Procs :
          (req'[p] # req[p] /\ req'[p].pc # "idle" /\ ~req'[p].direct
           /\ InvalidKey(req'[p].key)) =>
              /\ UNCHANGED <<license, emailIdx, zset, ttl>>
              /\ req'[p].pc \in {"getLicense", "done"}
              /\ req'[p].pc = "done" =>
                    (req'[p].resp.status = 401
                     /\ req'[p].resp.code = "invalid_license_key")
      ]_vars

\* a key never issued is rejected after an earlier request was served
C10_Witness ==
    \E p \in Procs :
        /\ req[p].pc = "done" /\ ~req[p].direct
        /\ req[p].key = "KX"
        /\ req[p].resp.status = 401
        /\ req[p].resp.code = "invalid_license_key"
        /\ nreq = 2

-----------------------------------------------------------------------------
(* Properties of the model gates *)

\* model and messages as the payload gate wants them
WellFormed(body) ==
    /\ body.kind = "json"
    /\ body.modelKind = "string" /\ Len(body.model) > 0
    /\ body.msgsKind = "array" /\ Len(body.messages) > 0

\* the model starts with none of gpt-, o3-, o1-, claude-, gemini-, deepseek-
NoProviderPrefix(model) ==
    \A pre \in {s_gpt, s_o3, s_o1, s_claude, s_gemini, s_deepseek} :
        ~StartsWith(model, pre)

\* a finished request of an active license that the limiter admitted
Admitted(r) ==
    /\ r.pc = "done" /\ ~r.direct
    /\ r.lic # NoRec /\ r.lic.status = "active"
    /\ r.rate.allowed

\* C11, as stated: an admitted request with a well-formed payload whose model
\* has none of the provider prefixes is answered 400, invalid_request_error,
\* unknown_model, on every plan.
C11_UnknownModelGets400 ==
    \A p \in Procs :
        LET r == req[p]
        IN (Admitted(r) /\ WellFormed(r.body) /\ NoProviderPrefix(r.body.model)) =>
              /\ r.resp.status = 400
              /\ r.resp.type = "invalid_request_error"
              /\ r.resp.code = "unknown_model"

\* C11, amended: such a request is stopped one gate earlier, at model
\* authorization, with 403, permission_error, model_not_allowed, on every plan:
\* every model a plan allows starts with a provider prefix, so no request
\* reaches provider resolution with a model that has none.
C11_UnknownModelGets403 ==
    \A p \in Procs :
        LET r == req[p]
        IN (Admitted(r) /\ WellFormed(r.body) /\ NoProviderPrefix(r.body.model)) =>
              /\ r.resp.status = 403
              /\ r.resp.type = "permission_error"
              /\ r.resp.code = "model_not_allowed"
              /\ r.gates = <<1, 2, 3, 4, 5>>

\* a business license asked for a model without provider prefix
C11_Witness ==
    \E p \in Procs :
        /\ Admitted(req[p]) /\ WellFormed(req[p].body)
        /\ NoProviderPrefix(req[p].body.model)
        /\ req[p].plan = "business"
        /\ req[p].resp.code = "model_not_allowed"

\* no entry of the plan's list (the free plan's for an unknown plan) is a
\* prefix of the model
NotOnPlan(plan, model) ==
    LET ms == IF plan \in DOMAIN PLANS THEN PLANS[plan].models ELSE PLANS["free"].models
    IN \A i \in 1..Len(ms) : ~StartsWith(model, ms[i])

\* C12: an admitted request with a well-formed payload whose model is not on
\* the license's plan is answered 403, permission_error, model_not_allowed, and
\* neither the quota gate nor provider resolution has been evaluated, also when
\* the license is at its task limit.
C12_ModelNotAllowedGets403 ==
    \A p \in Procs :
        LET r == req[p]
        IN (Admitted(r) /\ WellFormed(r.body) /\ NotOnPlan(r.plan, r.body.model)) =>
              /\ r.resp.status = 403
              /\ r.resp.type = "permission_error"
              /\ r.resp.code = "model_not_allowed"
              /\ r.gates = <<1, 2, 3, 4, 5>>
              /\ r.provider = None

\* plan free at its task limit asks for claude-opus-4-20250514
C12_Witness ==
    \E p \in Procs :
        /\ Admitted(req[p]) /\ req[p].plan = "free"
        /\ req[p].body.model = m_claudeopus
        /\ req[p].lic.tasksUsedThisMonth = TASKS_FREE
        /\ req[p].resp.status = 403
        /\ req[p].resp.code = "model_not_allowed"

-----------------------------------------------------------------------------
(* Properties of the relay *)

\* C13: when the upstream call answered with a non-2xx status, the caller gets
\* that status with the message, type and code that normalizeProviderError
\* gives for the upstream body, and nothing of the upstream body was streamed.
C13_UpstreamErrorIsNormalized ==
    \A p \in Procs :
        LET r == req[p]
            n == normalizeProviderError(r.provider, r.up.status, r.up.body)
        IN (r.pc = "done" /\ r.up.kind = "error") =>
              /\ r.resp.status = r.up.status
              /\ r.resp.message = n.message
              /\ r.resp.type = n.type
              /\ r.resp.code = n.code
              /\ r.written = <<>>

\* an exception was raised while the request was handled: by the store call of
\* a deployment without store configuration, by destructuring an absent body,
\* by model.startsWith on a model that is not a string, by the upstream fetch,
\* or by parsing a buffered upstream body that is not JSON
Threw(r, e) ==
    \/ r.key # NoKey /\ ~e.kv
    \/ Len(r.gates) >= 4 /\ r.body.kind = "none"
    \/ Len(r.gates) >= 5 /\ r.body.modelKind = "number"
    \/ r.up.kind = "throw"
    \/ r.up.kind \in {"ok", "error"} /\ ~r.body.stream /\ r.up.body.shape = "text"

-----------------------------------------------------------------------------
(* Properties of the limiter's results *)

\* C15: a checkRateLimit call none of whose store commands succeeds returns
\* allowed = true with remaining equal to the plan's limit.
C15_FailOpenWithFullRemaining ==
    \A p \in Procs :
        (req[p].pc = "done" /\ req[p].direct) =>
            /\ req[p].rate.allowed
            /\ req[p].rate.remaining = DocumentedLimit(req[p].plan)

\* C16: every denial of checkRateLimit, whatever the interleaving of the calls
\* on the key, has a resetInSeconds of at least 1 and at most 60.
C16_RetryAfterWithinWindow ==
    \A p \in Procs :
        (req[p].pc = "done" /\ req[p].direct /\ ~req[p].rate.allowed) =>
            /\ req[p].rate.resetInSeconds >= 1
            /\ req[p].rate.resetInSeconds <= 60

\* C17: every response of the POST endpoint with status 429 carries a
\* Retry-After header, and the per-minute rejection also X-RateLimit-Remaining 0.
C17_Every429HasRetryAfter ==
    \A p \in Procs :
        LET r == req[p]
        IN (r.pc = "done" /\ ~r.direct /\ r.resp.status = 429) =>
              /\ "Retry-After" \in DOMAIN r.resp.headers
              /\ r.resp.code = "rate_limit_exceeded" =>
                    ("X-RateLimit-Remaining" \in DOMAIN r.resp.headers
                     /\ r.resp.headers["X-RateLimit-Remaining"] = 0)

\* C18: an allowed call that counted count entries returns remaining =
\* max(0, limit - count - 1), and with calls made one at a time count is the
\* number of calls admitted earlier in the 60 seconds up to the call; so
\* remaining = limit - (calls admitted in the window, this one included), and
\* of two admitted calls in a row with no entry leaving the window between
\* them the second has a remaining exactly 1 below the first.
C18_RemainingCountsDown ==
    \A p \in Procs :
        LET r == req[p]
            inWindow == InSpan(admitted[r.key], r.rlNow - WINDOW_MS, r.rlNow)
        IN (r.pc = "done" /\ r.direct /\ r.rate.allowed) =>
              /\ r.rate.remaining = (IF r.limit - r.count - 1 > 0
                                     THEN r.limit - r.count - 1 ELSE 0)
              /\ r.count = inWindow - 1
              /\ r.rate.remaining = DocumentedLimit(r.plan) - inWindow

\* the second admitted call of a starter key in a window: 13 remain
C18_Witness ==
    \E p \in Procs :
        /\ req[p].pc = "done" /\ req[p].direct /\ req[p].rate.allowed
        /\ req[p].plan = "starter"
        /\ req[p].count = 1
        /\ req[p].rate.remaining = 13

-----------------------------------------------------------------------------
(* Properties of the streaming relay *)

\* C19: while a 2xx upstream body is streamed to a caller that stays connected,
\* the chunks written are the chunks read, in order, and the next read is
\* issued only after the last chunk read was written; the response is ended at
\* most once, exactly once when the request is finished, and nothing is written
\* after it was ended.
C19_ChunksRelayedUnchanged ==
    /\ [](\A p \in Procs :
            LET r == req[p]
            IN /\ (r.pc \in {"stream", "done"} /\ ~r.closed) => r.written = r.got
               /\ r.pc = "stream" => (r.reads = Len(r.written) + 1 /\ r.ended = 0)
               /\ (r.pc = "done" /\ r.body.stream /\ r.up.kind = "ok") => r.ended = 1)
    /\ [][\A p \in Procs :
            (req[p].ended >= 1 /\ req'[p].pc # "idle") =>
                (req'[p].written = req[p].written /\ req'[p].ended = req[p].ended)]_vars

\* C20: once the caller has closed its connection, the relay loop issues no
\* further read of the upstream body.
C20_NoReadAfterCallerClosed ==
    [][\A p \in Procs :
          (req[p].closed /\ req'[p].pc # "idle") => req'[p].reads = req[p].reads]_vars

-----------------------------------------------------------------------------
(* Properties of the other endpoints and methods *)

\* C21: GET /api/verify answers 401 without a credential, 404 when the lookup
\* finds no license record, 403 with the license's status when the record is
\* not active, and 200 with active = true when it is active; the record the
\* answer is made from is the one stored under the key, and no step of such a
\* request changes the license store or the email index.
C21_VerifyTellsCasesApart ==
    /\ [](\A p \in Procs :
            LET r == req[p]
            IN (r.pc = "done" /\ r.path = "/api/verify") =>
                  /\ r.key = NoKey => (r.resp.status = 401 /\ ~r.active)
                  /\ (r.key # NoKey /\ r.lic = NoRec) => (r.resp.status = 404 /\ ~r.active)
                  /\ (r.key # NoKey /\ r.lic # NoRec /\ r.lic.status # "active") =>
                        (r.resp.status = 403 /\ ~r.active /\ r.licStatus = r.lic.status)
                  /\ (r.key # NoKey /\ r.lic # NoRec /\ r.lic.status = "active") =>
                        (r.resp.status = 200 /\ r.active)
                  /\ r.lic # NoRec => r.lic = license[r.key])
    /\ [][\A p \in Procs :
            (req'[p] # req[p] /\ req'[p].path = "/api/verify") =>
                (license' = license /\ emailIdx' = emailIdx)]_vars

C21_Witness ==
    \E p \in Procs :
        /\ req[p].pc = "done" /\ req[p].path = "/api/verify"
        /\ req[p].resp.status = 403 /\ req[p].licStatus = "expired"
        /\ license[req[p].key].status = "expired"

\* C22: an OPTIONS request to /api/ai is answered 200 with the three CORS
\* headers and no body, and any method other than OPTIONS and POST is answered
\* 405; neither evaluates a gate, reads a license key or makes an upstream
\* call, and no step of such a request changes the license store, the email
\* index, the rate-limit sets or their expiry times.
C22_PreflightHasNoEffect ==
    /\ [](\A p \in Procs :
            LET r == req[p]
            IN (r.pc # "idle" /\ r.path = "/api/ai" /\ r.method # "POST") =>
                  /\ r.pc = "done"
                  /\ r.method = "OPTIONS" =>
                        /\ r.resp.status = 200
                        /\ r.resp.type = None /\ r.resp.message = <<>>
                        /\ DOMAIN r.resp.headers = {"Access-Control-Allow-Origin",
                                                    "Access-Control-Allow-Methods",
                                                    "Access-Control-Allow-Headers"}
                        /\ r.resp.headers["Access-Control-Allow-Origin"] = "*"
                  /\ r.method # "OPTIONS" => r.resp.status = 405
                  /\ r.key = NoKey /\ r.gates = <<>> /\ r.calls = 0 /\ r.rate = NoRate)
    /\ [][\A p \in Procs :
            (req'[p] # req[p] /\ req'[p].path = "/api/ai" /\ req'[p].method # "POST") =>
                (license' = license /\ emailIdx' = emailIdx /\ zset' = zset /\ ttl' = ttl)]_vars

C22_Witness ==
    \E p \in Procs :
        /\ req[p].pc = "done" /\ req[p].path = "/api/ai" /\ req[p].method = "OPTIONS"
        /\ req[p].resp.status = 200
        /\ license["K1"] # NoRec /\ zset["K1"] # EmptyBag
-----------------------------------------------------------------------------
(* Properties of the plan catalog and the provider router *)

\* C23: isModelAllowed(plan, model) returns true when the model equals or
\* starts with an entry of the plan's model list and false otherwise, where a
\* plan identifier outside the catalog has the list of the free plan.
C23_PrefixMatchFreeFallback ==
    \A p \in Procs :
        LET r == req[p]
            ms == IF r.plan \in {"free", "starter", "pro", "business"}
                  THEN PLANS[r.plan].models ELSE PLANS["free"].models
            model == r.body.model
            matches == \E i \in DOMAIN ms :
                          /\ Len(model) >= Len(ms[i])
                          /\ \A j \in 1..Len(ms[i]) : model[j] = ms[i][j]
        IN (r.pc = "done" /\ r.allowed # None) =>
              r.allowed = (IF matches THEN "true" ELSE "false")

\* C24: getProviderFromModel returns openai for a model starting with gpt-,
\* o3- or o1-, anthropic for claude-, gemini for gemini-, deepseek for
\* deepseek-, and no provider for every other string.
C24_ProviderByPrefix ==
    \A p \in Procs :
        LET r == req[p]
            model == r.body.model
            Begins(n, str) == Len(model) >= n /\ SubSeq(model, 1, n) = str
            expected ==
                IF Begins(4, <<"g","p","t","-">>) \/ Begins(3, <<"o","3","-">>)
                     \/ Begins(3, <<"o","1","-">>) THEN "openai"
                ELSE IF Begins(7, <<"c","l","a","u","d","e","-">>) THEN "anthropic"
                ELSE IF Begins(7, <<"g","e","m","i","n","i","-">>) THEN "gemini"
                ELSE IF Begins(9, <<"d","e","e","p","s","e","e","k","-">>) THEN "deepseek"
                ELSE None
        IN (r.pc = "done" /\ r.allowed # None) => r.provider = expected

C24_Witness ==
    \E p \in Procs :
        /\ req[p].pc = "done" /\ req[p].allowed # None
        /\ req[p].body.model = <<"o","4","-","m","i","n","i">>
        /\ req[p].provider = None

-----------------------------------------------------------------------------
(* Properties of the license store and the webhook *)

\* C25: every license record is stored under the key in its key field, a
\* record once stored stays under its key, and the write of createLicense
\* never replaces a record that exists.
C25_KeysUniqueAndImmutable ==
    /\ [](\A k \in AllKeys : license[k] # NoRec => license[k].key = k)
    /\ [][\A k \in AllKeys :
            license[k] # NoRec =>
                /\ license'[k] # NoRec /\ license'[k].key = k
                /\ (\E d \in Procs : wh[d].pc = "c_set") => license'[k] = license[k]]_vars

\* C26: a delivery that is not a verified event is answered 500 when
\* STRIPE_WEBHOOK_SECRET is not set, and 400 when the secret is set and the
\* stripe-signature header is missing or the signature check fails; the
\* license store and the email index change only during a verified delivery.
C26_OnlyVerifiedEventsWrite ==
    /\ [](\A d \in Procs :
            /\ (wh[d].pc = "done" /\ ~env.whSecret) => wh[d].status = 500
            /\ (wh[d].pc = "done" /\ env.whSecret /\ wh[d].sig \in {"none", "bad"})
                  => wh[d].status = 400
            /\ (wh[d].pc = "done" /\ ~wh[d].verified) => license = wh[d].before)
    /\ [][(license' # license \/ emailIdx' # emailIdx)
            => \E d \in Procs : wh[d].verified]_vars

\* C27: when a verified checkout.session.completed with an email has been
\* handled, the email has an active license of the event's plan; if it had
\* none, one record was written, with usage 0; if it had one, the number of
\* records and the key issued to the email are the same as before and only
\* plan and status of that record were set.
C27_OneLicensePerEmail ==
    LET Count(store) == Cardinality({k \in AllKeys : store[k] # NoRec})
        w == wh["p1"]
        k == emailIdx[w.email]
    IN (w.pc = "done" /\ w.verified /\ w.email # None /\ w.status = 200) =>
          /\ k # NoKey /\ license[k] # NoRec
          /\ license[k].plan = w.plan /\ license[k].status = "active"
          /\ w.beforeKey = NoKey =>
                /\ license[k].email = w.email /\ license[k].tasksUsedThisMonth = 0
                /\ Count(license) <= Count(w.before) + 1
                /\ \A j \in AllKeys \ {k} : license[j] = w.before[j]
          /\ w.beforeKey # NoKey =>
                /\ k = w.beforeKey
                /\ Count(license) = Count(w.before)
                /\ license = [w.before EXCEPT ![k] = [@ EXCEPT !.plan = w.plan,
                                                               !.status = "active"]]

\* the second delivery of an event whose first delivery created the license
C27_Witness ==
    LET w == wh["p1"]
    IN
    /\ w.pc = "done" /\ w.verified /\ w.email = "E2" /\ nreq = 2
    /\ w.beforeKey = "K2" /\ emailIdx["E2"] = "K2"
    /\ w.before["K2"].plan = w.plan /\ w.before["K2"].tasksUsedThisMonth = 0
    /\ Cardinality({k \in AllKeys : license[k] # NoRec}) = 2

-----------------------------------------------------------------------------
(* Properties of the rate-limit set *)

\* C28: for every license key, the rate-limit set holds at least as many
\* entries as there were calls allowed for the key in the last 60 seconds,
\* also when single store commands fail without raising an error.
C28_EntriesBoundAllowedCalls ==
    \A k \in AllKeys : ZCard(zset[k]) >= InSpan(admitted[k], now - WINDOW_MS, now)


\* C29: counting and adding are separate commands, so of two concurrent calls
\* on one key both can read count = limit - 1 and both be allowed (the
\* witness), which admits limit + 1 calls in one window; that is the worst two
\* calls can do: the count step leaves the set as it is, every allowed call
\* has read a count below the limit, and no window of 60 seconds ending at an
\* allowed call holds more than limit + 1 allowed calls.
C29_RaceAdmitsOneExtra ==
    /\ [](\A p \in Procs :
            LET r == req[p]
            IN (r.pc = "done" /\ r.direct /\ r.rate.allowed) =>
                  /\ r.count < r.limit
                  /\ InSpan(admitted[r.key], r.rlNow - WINDOW_MS, r.rlNow) <= r.limit + 1)
    /\ [][\A p \in Procs :
            (req[p].pc = "zcard" /\ req'[p].pc # "zcard") => zset' = zset]_vars

C29_Witness ==
    /\ \A p \in Procs :
          /\ req[p].pc = "done" /\ req[p].direct /\ req[p].rate.allowed
          /\ req[p].count = req[p].limit - 1
          /\ req[p].key = "K1"
    /\ InSpan(admitted["K1"], now - WINDOW_MS, now) = RATE_FREE + 1
    /\ ZCard(zset["K1"]) = RATE_FREE + 1


\* C30: let the calls allowed before a call made at time t contain a full
\* window, that is limit entries within 60 seconds from a single oldest entry
\* at s, with s + 60 s <= t and every younger entry still less than 60 s old
\* at t.  If no call was allowed since s + 60 s, the call is allowed; if one
\* was, the call is denied.  Younger entries may share a timestamp.
C30_CapacityFreesByOne ==
    \A p \in Procs :
        LET r == req[p]
            t == r.rlNow
            prior == IF r.rate.allowed THEN admitted[r.key] (-) SetToBag({t})
                     ELSE admitted[r.key]
            Since(s) == InSpan(prior, s + WINDOW_MS - 1, t)
            Ran(s) == /\ prior[s] = 1
                      /\ InSpan(prior, s - 1, s + WINDOW_MS - 1) = r.limit
                      /\ s + WINDOW_MS <= t
                      /\ \A y \in DOMAIN prior : y > s => t < y + WINDOW_MS
        IN (r.pc = "done" /\ r.direct) =>
              \A s \in DOMAIN prior :
                  /\ (Ran(s) /\ Since(s) = 0) => r.rate.allowed
                  /\ (Ran(s) /\ Since(s) = 1) => ~r.rate.allowed

\* four entries of one millisecond stay when the oldest leaves: one call was
\* allowed at that instant and the next one is denied
C30_Witness ==
    /\ admitted["K1"] = (WINDOW_MS :> 1) @@ (WINDOW_MS + 1 :> 4) @@ (2 * WINDOW_MS :> 1)
    /\ req["p1"].pc = "done" /\ req["p1"].direct /\ ~req["p1"].rate.allowed
    /\ req["p1"].rlNow = 2 * WINDOW_MS

-----------------------------------------------------------------------------
(* Properties of the error normalizer and the request translators *)

C33_TranslatorsKeepMessages ==
    \A p \in Procs :
        LET r == req[p]
            body == r.canon
            out == r.payload
            rest == SelectSeq(body.messages, LAMBDA m : m.role # "system")
            sys == SelectSeq(body.messages, LAMBDA m : m.role = "system")
        IN (r.pc = "done" /\ body.messages # <<>>) =>
              /\ Len(out.messages) = Len(rest)
              /\ out.hasSystem = (sys # <<>>)
              /\ sys # <<>> => out.system = sys[1].content
              /\ r.provider = "anthropic" =>
                    /\ out.messages = rest
                    /\ out.hasMaxTokens
                    /\ out.max_tokens = IF body.hasMaxTokens THEN body.max_tokens
                                        ELSE 4096
              /\ r.provider = "gemini" =>
                    /\ \A i \in 1..Len(rest) :
                          /\ out.messages[i].parts = <<[text |-> rest[i].content]>>
                          /\ out.messages[i].role =
                                IF rest[i].role = "assistant" THEN "model" ELSE "user"
                    /\ (out.url = ":streamGenerateContent") = (body.stream = "true")
                    /\ out.url \in {":streamGenerateContent", ":generateContent"}


\* C32: incrementTaskCount, when its lookup finds the record at or after the
\* record's monthResetDate, writes the record with the counter at 1 and a
\* monthResetDate after the current time; before monthResetDate it writes the
\* counter plus 1 with monthResetDate as it was; it returns the counter it
\* wrote; when the lookup finds no record it returns -1 and writes nothing.
C32_IncrementResetsAtMonthTurn ==
    [][\A p \in Procs :
          LET r == req[p]
              old == license[r.key]
          IN /\ (r.pc = "incGet" /\ req'[p].pc = "incSet") =>
                   /\ req'[p].rec = [old EXCEPT
                          !.tasksUsedThisMonth =
                              IF now >= old.monthResetDate THEN 1 ELSE @ + 1,
                          !.monthResetDate = req'[p].rec.monthResetDate]
                   /\ IF now >= old.monthResetDate
                      THEN req'[p].rec.monthResetDate > now
                      ELSE req'[p].rec.monthResetDate = old.monthResetDate
             /\ (r.pc = "incGet" /\ req'[p].pc = "fetch") =>
                   /\ req'[p].ret = -1
                   /\ license' = license /\ emailIdx' = emailIdx
             /\ (r.pc = "incSet" /\ req'[p].pc # "incSet") =>
                   /\ license' = [license EXCEPT ![r.key] = r.rec]
                   /\ emailIdx' = emailIdx
             /\ (r.pc = "incSetEmail" /\ req'[p].pc # "incSetEmail") =>
                   /\ req'[p].ret = license[r.key].tasksUsedThisMonth
                   /\ license' = license
                   /\ emailIdx' = [emailIdx EXCEPT ![license[r.key].email] = r.key]
             /\ (\A q \in Procs : req[q].pc \notin {"incSet", "incSetEmail"}) =>
                   license' = license /\ emailIdx' = emailIdx]_vars

\* a request made at the month's turn by a key one below its limit: the stored
\* counter is 1 and the reset date has moved on
C32_Witness ==
    \E p \in Procs :
        /\ req[p].pc = "fetch" /\ req[p].ret = 1
        /\ req[p].before["K1"].tasksUsedThisMonth = TASKS_FREE - 1
        /\ req[p].before["K1"].monthResetDate = now
        /\ license["K1"].tasksUsedThisMonth = 1
        /\ license["K1"].monthResetDate > now

-----------------------------------------------------------------------------
(* Properties of concurrent requests and deliveries *)

\* C34: for a license whose plan has a finite task limit, the stored
\* tasksUsedThisMonth never exceeds the limit, and the upstream calls dispatched
\* for it in one month never exceed it either: the requests that have
\* dispatched their call, added to the counter they all started from, stay
\* within the limit, under any interleaving.
C34_QuotaNeverExceeded ==
    LET lic == license["K1"]
        lim == PlanConfig(lic.plan).taskLimit
        called == {p \in Procs : req[p].calls > 0}
    IN (lic # NoRec /\ lim # UNLIMITED /\ (\A d \in Procs : wh[d] = IdleWh) /\ called # {}
        /\ \A p \in called : req[p].before["K1"].plan = lic.plan) =>
          /\ lic.tasksUsedThisMonth <= lim
          /\ \A p \in called :
                (\A q \in called : req[q].before = req[p].before) =>
                    req[p].before["K1"].tasksUsedThisMonth + Cardinality(called) <= lim

\* C35: when N requests of one license have passed gates 1 to 8 and dispatched
\* their call, no other request or delivery having run, the stored
\* tasksUsedThisMonth is N above what it was before them.
C35_NoUsageLost ==
    LET called == {p \in Procs : req[p].calls > 0}
    IN (/\ called # {}
        /\ \A p \in Procs \ called : req[p].pc = "idle"
        /\ nreq = Cardinality(called)
        /\ (\A d \in Procs : wh[d] = IdleWh)) =>
          \A p \in called :
              license["K1"].tasksUsedThisMonth =
                  req[p].before["K1"].tasksUsedThisMonth + Cardinality(called)


\* C36: with at most K = 2 checkRateLimit calls on a key in flight at once,
\* the entries recorded for the key with timestamps inside any window of 60
\* seconds number at most limit + K - 1, whether or not they were pruned since.
C36_OverAdmissionBounded ==
    LET K == Cardinality(Procs)
    IN \A k \in AllKeys :
          \A t \in DOMAIN admitted[k] :
              InSpan(admitted[k], t - 1, t - 1 + WINDOW_MS)
                  <= RateLimitOf("free") + K - 1

\* C36, amended: with at most K = 2 calls in flight at once, the set of a key
\* never holds more than limit + K - 1 entries, so at no moment does it hold
\* more than that inside any window of 60 seconds.
C36_SetHoldsAtMostLimitPlusK ==
    LET K == Cardinality(Procs)
    IN \A k \in AllKeys :
          /\ BagCardinality(zset[k]) <= RateLimitOf("free") + K - 1
          /\ \A t \in DOMAIN zset[k] :
                InSpan(zset[k], t - 1, t - 1 + WINDOW_MS) <= RateLimitOf("free") + K - 1

\* both calls in flight were allowed on a count of limit - 1, a third call was
\* denied after them, and the window holds limit + 1 entries
C36_Witness ==
    /\ InSpan(admitted["K1"], now - WINDOW_MS, now) = RATE_FREE + 1
    /\ ZCard(zset["K1"]) = RATE_FREE + 1
    /\ now > WINDOW_MS
    /\ \E p \in Procs :
          /\ req[p].pc = "done" /\ req[p].direct /\ ~req[p].rate.allowed
          /\ req[p].count = RATE_FREE + 1

-----------------------------------------------------------------------------
(* Properties of the limiter inside the handler *)

\* C37: a request that the limiter allowed and a later gate rejected (payload,
\* model authorization, quota, provider resolution, provider key) has added
\* one entry to its key's set: the set holds the entries the call counted and
\* one more, with the call's timestamp; a request rejected at credential
\* extraction or license resolution leaves every set as it was.
C37_SlotConsumedBeforeValidation ==
    /\ [](\A p \in Procs :
            LET r == req[p]
            IN (r.pc = "done" /\ r.path = "/api/ai" /\ r.method = "POST"
                /\ (\E i \in 1..Len(r.gates) : r.gates[i] = 3) /\ r.rate.allowed /\ r.resp.status >= 400) =>
                  /\ BagCardinality(zset[r.key]) = r.count + 1
                  /\ r.rlNow \in DOMAIN zset[r.key])
    /\ [][\A p \in Procs :
            (req[p].pc \in {"idle", "getLicense"} /\ req'[p] # req[p]
             /\ req'[p].path = "/api/ai" /\ req'[p].pc = "done") =>
                (zset' = zset /\ ttl' = ttl /\ \A i \in 1..Len(req'[p].gates) : req'[p].gates[i] < 3)]_vars

\* a request on a key with no entry, allowed by the limiter and then rejected
\* for its model: the set holds one entry
C37_Witness ==
    \E p \in Procs :
        /\ req[p].pc = "done" /\ req[p].rate.allowed
        /\ req[p].resp.code = "model_not_allowed"
        /\ req[p].count = 0
        /\ BagCardinality(zset[req[p].key]) = 1


\* C38: the commands of a denied call add no entry and leave the key's expiry
\* as it is or remove it with the emptied key; and after a denial, with no other
\* call in flight, a call made 60 seconds after the timestamp of the oldest
\* entry counts fewer entries than the limit, so it is allowed.
C38_DeniedCallsDoNotExtendLockout ==
    /\ [](\A p \in Procs :
            LET r == req[p]
                b == zset[r.key]
                oldest == CHOOSE x \in DOMAIN b : \A y \in DOMAIN b : x <= y
            IN (/\ r.pc = "done" /\ r.direct /\ ~r.rate.allowed
                /\ \A q \in Procs \ {p} : req[q].pc \in {"idle", "done"}
                /\ b # EmptyBag) =>
                  ZCard(Pruned(b, oldest + WINDOW_MS)) < r.limit)
    /\ [][\A p \in Procs :
            (req[p].pc \in {"zrem", "zcard", "zrange"} /\ req'[p].pc # req[p].pc
             /\ req'[p].pc # "zadd") =>
                /\ \A t \in DOMAIN zset'[req[p].key] :
                      /\ t \in DOMAIN zset[req[p].key]
                      /\ zset'[req[p].key][t] = zset[req[p].key][t]
                /\ ttl'[req[p].key] \in {ttl[req[p].key], 0}
                /\ admitted' = admitted]_vars

\* C38, amended: as C38, for a set that holds no more entries than the limit
\* when the denied client calls again.
C38_LockoutEndsUnlessOverfull ==
    /\ [](\A p \in Procs :
            LET r == req[p]
                b == zset[r.key]
                oldest == CHOOSE x \in DOMAIN b : \A y \in DOMAIN b : x <= y
            IN (/\ r.pc = "done" /\ r.direct /\ ~r.rate.allowed
                /\ \A q \in Procs \ {p} : req[q].pc \in {"idle", "done"}
                /\ b # EmptyBag /\ BagCardinality(b) <= r.limit) =>
                  ZCard(Pruned(b, oldest + WINDOW_MS)) < r.limit)
    /\ [][\A p \in Procs :
            (req[p].pc \in {"zrem", "zcard", "zrange"} /\ req'[p].pc # req[p].pc
             /\ req'[p].pc # "zadd") =>
                /\ \A t \in DOMAIN zset'[req[p].key] :
                      /\ t \in DOMAIN zset[req[p].key]
                      /\ zset'[req[p].key][t] = zset[req[p].key][t]
                /\ ttl'[req[p].key] \in {ttl[req[p].key], 0}
                /\ admitted' = admitted]_vars

\* a call denied on a full set one millisecond before the oldest entry is 60
\* seconds old, the set and its expiry as the last allowed call left them
C38_Witness ==
    \E p \in Procs :
        /\ req[p].pc = "done" /\ req[p].direct /\ ~req[p].rate.allowed
        /\ req[p].rlNow = 2 * WINDOW_MS - 1
        /\ req[p].count = RATE_FREE
        /\ zset["K1"] = admitted["K1"]
        /\ WINDOW_MS \in DOMAIN zset["K1"]
        /\ ttl["K1"] < req[p].rlNow + WINDOW_MS

-----------------------------------------------------------------------------
(* Properties of the operations that write licenses *)

C40_ConcurrentDeliveriesOneLicense ==
    (\A d \in Procs : /\ wh[d].pc = "done" /\ wh[d].kind = "checkout"
                      /\ wh[d].verified /\ wh[d].email = "E1") =>
        LET ks == {k \in AllKeys : license[k] # NoRec /\ license[k].email = "E1"}
        IN /\ Cardinality(ks) <= 1
           /\ ks # {} => emailIdx["E1"] \in ks

=============================================================================
